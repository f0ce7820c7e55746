--------------------------- MODULE SoftwareTimers ---------------------------
(***************************************************************************)
(* The software timers of the kernel (tiva_tm4c/FreeRTOS/timers.c): tasks  *)
(* and interrupts send commands to the timer task, which keeps the active  *)
(* timers in two sorted lists, one for the current round of the tick count *)
(* and one for the next, and runs their callbacks.  The timer task has the *)
(* highest priority but one can be late all the same, by interrupts and by *)
(* its own callbacks.                                                      *)
(***************************************************************************)
EXTENDS TickCount, Lists

CONSTANTS
    Timers,
    AutoReload,   \* the timers that reload
    Periods,      \* the periods they are given
    TimerQueueLength,  \* configTIMER_QUEUE_LENGTH
    MaxAsked,     \* bound: the commands of tasks and interrupts in the queue
    MaxLate       \* bound: the ticks while the timer task has something to do,
                  \* or a task is about to send a command

ASSUME SoftwareTimersAssumption ==
    /\ AutoReload \subseteq Timers /\ Periods \subseteq Ticks \ {0}
    /\ TimerQueueLength \in Nat \ {0} /\ MaxAsked \in Nat /\ MaxLate \in Nat

VARIABLES
    tick,      \* xTickCount
    last,      \* xLastTime
    current,   \* pxCurrentTimerList
    overflow,  \* pxOverflowTimerList
    expiry,    \* the value of each timer's list item, 0 for one in no list
    period,    \* xTimerPeriodInTicks
    commands,  \* xTimerQueue
    asked,     \* a command that a task is about to send
    daemon,    \* where the timer task is: its place, and the data it holds there
    late       \* the ticks since it, or the task that asks, could go on

timersVars == <<tick, last, current, overflow, expiry, period, commands, asked, daemon, late>>
timerLists == <<current, overflow, expiry>>

CommandIds == {"start", "reload", "stop", "period"}
Messages == [id : CommandIds, timer : Timers, value : Ticks]
NoMessage == [id |-> "none"]

\* The places of the timer task, with the message and the times it has there.
DaemonAt(place) == [place |-> place, message |-> NoMessage, expire |-> 0, now |-> 0]
DaemonPlaces == {"next", "expired", "waiting", "commands", "switching", "execute", "start_now"}

TimersTypeOK ==
    /\ tick \in Ticks /\ last \in Ticks
    /\ current \in Seq(Timers) /\ overflow \in Seq(Timers)
    /\ expiry \in [Timers -> Ticks] /\ period \in [Timers -> Periods]
    /\ commands \in Seq(Messages) /\ Len(commands) <= TimerQueueLength
    /\ asked \in Messages \cup {NoMessage}
    /\ daemon \in [place : DaemonPlaces, message : Messages \cup {NoMessage},
                   expire : Ticks, now : Ticks]
    /\ late \in 0..MaxLate

\* xTimerCreate and xTimerCreateTimerTask
TimersInit ==
    /\ tick = 0 /\ last = 0
    /\ current = <<>> /\ overflow = <<>>
    /\ expiry = [t \in Timers |-> 0] /\ period \in [Timers -> Periods]
    /\ commands = <<>> /\ asked = NoMessage
    /\ daemon = DaemonAt("next") /\ late = 0

-----------------------------------------------------------------------------
\* xTimerGenericCommand: a task reads the tick count for the command and sends
\* it, later; without room it waits, or does not send it.
Asks ==
    /\ asked = NoMessage
    /\ Cardinality({n \in DOMAIN commands : commands[n].id /= "reload"}) < MaxAsked
    /\ \E t \in Timers :
          asked' \in {[id |-> "start", timer |-> t, value |-> tick],
                      [id |-> "stop", timer |-> t, value |-> 0]}
                     \cup {[id |-> "period", timer |-> t, value |-> n] : n \in Periods}
    /\ UNCHANGED <<tick, last, timerLists, period, commands, daemon, late>>

\* The timer task is woken by a message.
Woken(d) == IF d.place = "waiting" THEN DaemonAt("commands") ELSE d

Sends ==
    /\ asked /= NoMessage /\ Len(commands) < TimerQueueLength
    /\ commands' = Append(commands, asked)
    /\ asked' = NoMessage
    /\ daemon' = Woken(daemon)
    /\ UNCHANGED <<tick, last, timerLists, period, late>>

\* The commands with one of the timer task itself, which does not wait for room
\* and ignores that there is none.
WithReload(t, value) ==
    IF Len(commands) < TimerQueueLength
    THEN Append(commands, [id |-> "reload", timer |-> t, value |-> value])
    ELSE commands

-----------------------------------------------------------------------------
\* Mutant: a period that is just over is not.
AlreadyExpiredAfter(t, next, now, command_time) ==
    IF next <= now THEN Elapsed(command_time, now) > period[t]
    ELSE now < command_time /\ next >= command_time

\* Mutant: one whose time is in the next round has expired when the count wraps.
AlreadyExpiredOnWrap(t, next, now, command_time) ==
    IF next <= now THEN Elapsed(command_time, now) >= period[t]
    ELSE now < command_time

\* prvInsertTimerInActiveList: whether the timer has expired already ...
AlreadyExpired(t, next, now, command_time) ==
    IF next <= now THEN Elapsed(command_time, now) >= period[t]
    ELSE now < command_time /\ next >= command_time

\* ... and the list it goes to otherwise.
InsertTimer(t, next, now) ==
    /\ expiry' = [expiry EXCEPT ![t] = next]
    /\ IF next <= now
       THEN overflow' = Insert(overflow, t, expiry') /\ current' = Without(current, t)
       ELSE current' = Insert(Without(current, t), t, expiry') /\ UNCHANGED overflow

TakeOut(t) ==
    /\ current' = Without(current, t) /\ overflow' = Without(overflow, t)
    /\ expiry' = [expiry EXCEPT ![t] = 0]

\* prvGetNextExpireTime
NextExpireTime == IF current = <<>> THEN 0 ELSE expiry[Head(current)]

\* prvProcessTimerOrBlockTask: the scheduler is suspended, the tick count stands
\* still.  The timer task switches the lists ...
ProcessSwitches ==
    /\ daemon.place = "next" /\ tick < last
    /\ daemon' = DaemonAt("switching")
    /\ last' = tick
    /\ UNCHANGED <<tick, timerLists, period, commands, asked, late>>

\* ... or turns to the timer that has expired ...
ProcessFindsExpired ==
    /\ daemon.place = "next" /\ tick >= last
    /\ current /= <<>> /\ NextExpireTime <= tick
    /\ daemon' = [DaemonAt("expired") EXCEPT !.expire = NextExpireTime, !.now = tick]
    /\ last' = tick
    /\ UNCHANGED <<tick, timerLists, period, commands, asked, late>>

\* ... or waits for a message, until the next timer expires or the tick count
\* wraps, unless there is no timer.
ProcessWaits ==
    /\ daemon.place = "next" /\ tick >= last
    /\ ~ (current /= <<>> /\ NextExpireTime <= tick)
    /\ daemon' = IF commands = <<>> THEN [DaemonAt("waiting") EXCEPT !.expire = NextExpireTime]
                 ELSE DaemonAt("commands")
    /\ last' = tick
    /\ late' = IF commands = <<>> /\ asked = NoMessage THEN 0 ELSE late
    /\ UNCHANGED <<tick, timerLists, period, commands, asked>>

\* prvProcessExpiredTimer, with its callback
ProcessExpiredTimer ==
    /\ daemon.place = "expired"
    /\ LET t == Head(current)
           next == Later(daemon.expire, period[t])
       IN  CASE t \notin AutoReload -> TakeOut(t) /\ UNCHANGED commands
             [] t \in AutoReload /\ AlreadyExpired(t, next, daemon.now, daemon.expire) ->
                  TakeOut(t) /\ commands' = WithReload(t, daemon.expire)
             [] OTHER -> InsertTimer(t, next, daemon.now) /\ UNCHANGED commands
    /\ daemon' = DaemonAt("commands")
    /\ UNCHANGED <<tick, last, period, asked, late>>

\* One round of prvSwitchTimerLists: a timer left in the current list has expired;
\* it calls back, and reloads into the list if it has expired once more.
SwitchExpires ==
    /\ daemon.place = "switching" /\ current /= <<>>
    /\ LET t == Head(current)
           reload == Later(expiry[t], period[t])
       IN  IF t \in AutoReload /\ reload > expiry[t]
           THEN /\ expiry' = [expiry EXCEPT ![t] = reload]
                /\ current' = Insert(Without(current, t), t, expiry')
                /\ UNCHANGED <<overflow, commands>>
           ELSE /\ TakeOut(t)
                /\ commands' = IF t \in AutoReload THEN WithReload(t, expiry[t]) ELSE commands
    /\ UNCHANGED <<tick, last, period, asked, daemon, late>>

\* Its end; then come the commands, or the one that was received before.
SwitchTimerLists ==
    /\ daemon.place = "switching" /\ current = <<>>
    /\ current' = overflow /\ overflow' = <<>>
    /\ daemon' = IF daemon.message = NoMessage THEN DaemonAt("commands")
                 ELSE [daemon EXCEPT !.place = "execute"]
    /\ UNCHANGED <<tick, last, expiry, period, commands, asked, late>>

-----------------------------------------------------------------------------
\* prvProcessReceivedCommands: a message is received, the timer taken out of its
\* list and the time sampled; in the end the timer task begins again.
ReceivesCommand ==
    /\ daemon.place = "commands" /\ commands /= <<>>
    /\ commands' = Tail(commands)
    /\ TakeOut(Head(commands).timer)
    /\ daemon' = [place |-> IF tick < last THEN "switching" ELSE "execute",
                  message |-> Head(commands), expire |-> 0, now |-> tick]
    /\ last' = tick
    /\ UNCHANGED <<tick, period, asked, late>>

NoMoreCommands ==
    /\ daemon.place = "commands" /\ commands = <<>>
    /\ daemon' = DaemonAt("next")
    /\ UNCHANGED <<tick, last, timerLists, period, commands, asked, late>>

InHand == daemon.message

\* The commands that start a timer, and the one that restarts it.
ExecutesStart ==
    /\ daemon.place = "execute" /\ InHand.id \in {"start", "reload"}
    /\ LET t == InHand.timer
           next == Later(InHand.value, period[t])
       IN  IF AlreadyExpired(t, next, daemon.now, InHand.value)
           THEN daemon' = [daemon EXCEPT !.place = "start_now"] /\ UNCHANGED timerLists
           ELSE daemon' = DaemonAt("commands") /\ InsertTimer(t, next, daemon.now)
    /\ UNCHANGED <<tick, last, period, commands, asked, late>>

\* The callback of one that has expired by then
StartsNow ==
    /\ daemon.place = "start_now"
    /\ LET t == InHand.timer
       IN  commands' = IF t \in AutoReload THEN WithReload(t, Later(InHand.value, period[t]))
                       ELSE commands
    /\ daemon' = DaemonAt("commands")
    /\ UNCHANGED <<tick, last, timerLists, period, asked, late>>

ExecutesStop ==
    /\ daemon.place = "execute" /\ InHand.id = "stop"
    /\ daemon' = DaemonAt("commands")
    /\ UNCHANGED <<tick, last, timerLists, period, commands, asked, late>>

ExecutesChangePeriod ==
    /\ daemon.place = "execute" /\ InHand.id = "period"
    /\ period' = [period EXCEPT ![InHand.timer] = InHand.value]
    /\ InsertTimer(InHand.timer, Later(daemon.now, InHand.value), daemon.now)
    /\ daemon' = DaemonAt("commands")
    /\ UNCHANGED <<tick, last, commands, asked, late>>

-----------------------------------------------------------------------------
\* Whether the timer task blocks for ever, and whether a task is under way.
NoTimer == current = <<>> /\ overflow = <<>>
Busy == daemon.place /= "waiting" \/ asked /= NoMessage

\* A tick, while the scheduler is not suspended.  It may end the timer task's wait.
Tick ==
    /\ daemon.place = "switching" => daemon.message /= NoMessage
    /\ Busy => late < MaxLate
    /\ tick' = Later(tick, 1)
    /\ daemon' = IF daemon.place = "waiting" /\ ~ NoTimer /\ tick' = daemon.expire
                 THEN DaemonAt("commands") ELSE daemon
    /\ late' = IF Busy THEN late + 1 ELSE 0
    /\ UNCHANGED <<last, timerLists, period, commands, asked>>

DaemonNext ==
    \/ ProcessSwitches \/ ProcessFindsExpired \/ ProcessWaits \/ ProcessExpiredTimer
    \/ SwitchExpires \/ SwitchTimerLists
    \/ ReceivesCommand \/ NoMoreCommands
    \/ ExecutesStart \/ StartsNow \/ ExecutesStop \/ ExecutesChangePeriod

TimersNext == Asks \/ Sends \/ DaemonNext \/ Tick

TimersSpec == TimersInit /\ [][TimersNext]_timersVars

-----------------------------------------------------------------------------
\* The restarts of a timer that are in the queue, and whether the timer task has a
\* command in hand that restarts it or has found it expired.
Restarts(t) == {n \in DOMAIN commands : commands[n].id = "reload" /\ commands[n].timer = t}
Restarting(t) ==
    /\ daemon.place = "start_now" \/ InHand.id = "reload"
    /\ InHand.timer = t
InList(t) == Contains(current, t) \/ Contains(overflow, t)

\* The current list is of the round before the one of the tick count, which is then a
\* whole round further than it shows.
ListsAreOld == tick < last \/ daemon.place = "switching"
CurrentTime == IF ListsAreOld THEN tick + Round ELSE tick

\* The ticks before a timer is due: of one that starts as of the time of a command,
\* and of one in a list, at its expiry time in the round of the list.
DueFrom(t, command_time) == period[t] - Elapsed(command_time, tick)
DueInList(t) ==
    IF Contains(current, t) THEN expiry[t] - CurrentTime ELSE expiry[t] + Round - CurrentTime

\* One under way to a list is due as of the last command that brings it there.
DueIn(t) ==
    CASE Restarts(t) /= {} -> <<DueFrom(t, commands[Max(Restarts(t))].value)>>
      [] Restarts(t) = {} /\ Restarting(t) -> <<DueFrom(t, InHand.value)>>
      [] Restarts(t) = {} /\ ~ Restarting(t) /\ InList(t) -> <<DueInList(t)>>
      [] OTHER -> <<>>

\* A task has asked for something that has not been executed, or that has come
\* between a restart of the timer and its end: then the timer is in two places.
Commanded(t) ==
    \/ asked /= NoMessage /\ asked.timer = t
    \/ \E n \in DOMAIN commands : commands[n].id /= "reload" /\ commands[n].timer = t
    \/ InHand /= NoMessage /\ InHand.id /= "reload" /\ InHand.timer = t
    \/ Restarts(t) /= {} /\ (Restarting(t) \/ InList(t))
    \/ \E m, n \in Restarts(t) : m /= n

\* The start of a timer counts from the tick at which a task asked for it, however
\* long the command was on its way, and the callbacks of one that reloads are a
\* period apart, until a task commands it (timers.c:584-694, 696-909).
Alarm ==
    INSTANCE Alarms WITH MaxAge <- MaxLate,
        due <- [t \in Timers |-> DueIn(t)], commanded <- {t \in Timers : Commanded(t)}
CallsBackInTime == Alarm!Spec

\* The callback of a timer runs when the timer is due, never before: be it found at
\* the head of its list, left there when the lists are switched, or expired by the
\* time its command is executed (timers.c:472-498, 647-690, 800-909).
NoneCallsBackEarly ==
    [][/\ ProcessExpiredTimer \/ SwitchExpires => DueInList(Head(current)) <= 0
       /\ StartsNow => DueFrom(InHand.timer, InHand.value) <= 0]_timersVars
=============================================================================
