--------------------------- MODULE Webasto_proofs ---------------------------
(***************************************************************************)
(* The safety of the burner's controller, for every set of readings, every *)
(* pulse number and every length of its waits: polled from a loop, where   *)
(* its phases order what is on, and called from the timer, where it never  *)
(* gets beyond its first wait.                                             *)
(***************************************************************************)
EXTENDS Webasto, SequenceTheorems, TLAPS

USE TempAssumption, CountAssumption, TimerAssumption
DEF TempAssumption, CountAssumption, TimerAssumption

BurnerInv == TypeOK /\ LoopInv /\ SequenceInv /\ TimerInv

-----------------------------------------------------------------------------
(* The running call and the calls it preempted.                            *)

LEMMA CallTypes ==
    /\ Running \in Calls <=> /\ at \in Places /\ held \in States \cup {NotWaiting}
                             /\ left \in Nat /\ pulse \in 0 .. LastPulse
    /\ Idle \in Calls
BY DEF Running, Calls, Idle, Places

(* A call that returns leaves the stack as it found it.                    *)
LEMMA ReturnCall ==
    ASSUME TypeOK, Return
    PROVE  /\ Running' \in Calls
           /\ below' \in Seq(Calls)
           /\ below = <<>> => Running' = Idle /\ at' = "idle" /\ held' = NotWaiting /\ left' = 0 /\ below' = <<>>
           /\ below # <<>> => /\ 1 \in DOMAIN below
                              /\ Running' = below[1]
                              /\ \A i \in DOMAIN below' : i + 1 \in DOMAIN below /\ below'[i] = below[i + 1]
<1>1. CASE below = <<>>
  <2>1. at' = "idle" /\ held' = NotWaiting /\ left' = 0 /\ pulse' = 0 /\ below' = <<>>
    BY <1>1 DEF Return, Idle
  <2>2. Running' = Idle
    BY <2>1 DEF Running, Idle
  <2>. QED
    BY <1>1, <2>1, <2>2, CallTypes DEF TypeOK
<1>2. CASE below # <<>>
  <2>1. below \in Seq(Calls) /\ Len(below) \in Nat \ {0}
    BY <1>2, EmptySeq DEF TypeOK
  <2>2. 1 \in DOMAIN below /\ Head(below) = below[1] /\ below[1] \in Calls
    BY <2>1, LenProperties, ElementOfSeq
  <2>3. below' = Tail(below)
    BY <1>2 DEF Return
  <2>4. below' \in Seq(Calls) /\ DOMAIN below' = 1 .. Len(below) - 1
    BY <1>2, <2>1, <2>3, HeadTailProperties, LenProperties
  <2>5. \A i \in DOMAIN below' : i + 1 \in DOMAIN below /\ below'[i] = below[i + 1]
    BY <1>2, <2>1, <2>3, <2>4, HeadTailProperties, LenProperties
  <2>6. /\ at' = below[1].at /\ held' = below[1].held
        /\ left' = below[1].left /\ pulse' = below[1].pulse
    BY <1>2, <2>2 DEF Return
  <2>7. Running' = below[1]
    BY <2>2, <2>6 DEF Running, Calls
  <2>. QED
    BY <1>2, <2>2, <2>4, <2>5, <2>7
<1>. QED
    BY <1>1, <1>2

(* A period that ends leaves a call in its place.                          *)
LEMMA SoonerCall ==
    ASSUME NEW c \in Calls
    PROVE  /\ Sooner(c) \in Calls
           /\ Sooner(c).at = c.at /\ Sooner(c).held = c.held
           /\ Sooner(c).left \in Nat /\ Sooner(c).left + 1 >= c.left
BY DEF Sooner, Calls

(* The interrupt of the timer puts the running call on the stack.          *)
LEMMA PreemptCall ==
    ASSUME TypeOK, NEW place \in Places, Preempt(place)
    PROVE  /\ Running' \in Calls
           /\ below' \in Seq(Calls)
           /\ at' = place /\ held' = NotWaiting /\ left' = 0 /\ caller = "timer"
           /\ at = "idle" => below' = <<>>
           /\ at # "idle" =>
                /\ Waiting /\ (at = "cooldown" \/ ~StateChanged)
                /\ \A i \in DOMAIN below' : \/ below'[i] = Sooner(Running)
                                            \/ \E j \in DOMAIN below : below'[i] = Sooner(below[j])
<1>1. Running' \in Calls
    BY CallTypes DEF Preempt, Running, Calls
<1>2. CASE at = "idle"
  <2>1. below' = <<>>
    BY <1>2 DEF Preempt
  <2>. QED
    BY <1>1, <1>2, <2>1 DEF Preempt
<1>3. CASE at # "idle"
  <2>. DEFINE new == <<Sooner(Running)>>
              old == [i \in DOMAIN below |-> Sooner(below[i])]
  <2>1. below' = new \o old
    BY <1>3 DEF Preempt
  <2>2. new \in Seq(Calls) /\ Len(new) = 1 /\ new[1] = Sooner(Running)
    BY SoonerCall DEF TypeOK
  <2>3. Len(below) \in Nat /\ DOMAIN below = 1 .. Len(below)
    BY LenProperties DEF TypeOK
  <2>4. \A i \in 1 .. Len(below) : Sooner(below[i]) \in Calls
    BY <2>3, ElementOfSeq, SoonerCall DEF TypeOK
  <2>5. old \in Seq(Calls) /\ Len(old) = Len(below)
    BY <2>3, <2>4
  <2>6. below' \in Seq(Calls) /\ DOMAIN below' = 1 .. Len(below) + 1
    BY <2>1, <2>2, <2>3, <2>5, ConcatProperties, LenProperties
  <2>7. ASSUME NEW i \in DOMAIN below'
        PROVE  \/ below'[i] = Sooner(Running)
               \/ \E j \in DOMAIN below : below'[i] = Sooner(below[j])
    <3>1. below'[i] = IF i <= 1 THEN new[i] ELSE old[i - 1]
      BY <2>1, <2>2, <2>3, <2>5, <2>6, ConcatProperties
    <3>2. CASE i = 1
      BY <2>2, <3>1, <3>2
    <3>3. CASE i # 1
      <4>1. i - 1 \in DOMAIN below /\ ~(i <= 1)
        BY <2>3, <2>6, <3>3
      <4>2. below'[i] = Sooner(below[i - 1])
        BY <3>1, <4>1
      <4>. QED
        BY <4>1, <4>2
    <3>. QED
      BY <3>2, <3>3
  <2>. QED
    BY <1>1, <1>3, <2>6, <2>7 DEF Preempt
<1>. QED
    BY <1>2, <1>3

-----------------------------------------------------------------------------
(* At power-on everything is off.                                          *)
LEMMA BurnerInit == Init => BurnerInv
<1>. SUFFICES ASSUME Init PROVE BurnerInv
    OBVIOUS
<1>0. /\ at = "idle" /\ held = NotWaiting /\ left = 0 /\ pulse = 0 /\ below = <<>> /\ on = {}
      /\ systemState = "OFF"
    BY DEF Init
<1>1. TypeOK
  <2>1. Running \in Calls /\ below \in Seq(Calls)
    BY <1>0, CallTypes, EmptySeq DEF Places
  <2>2. systemState \in States /\ startingAttempts \in 0 .. MaxAttempts
    BY DEF Init, States
  <2>3. needHeaterOn = FALSE
    BY DEF Init
  <2>4. needHeaterOn \in BOOLEAN
    BY <2>3
  <2>. QED
    BY <2>1, <2>2, <2>4 DEF Init, TypeOK
<1>2. SequenceInv
    BY <1>0 DEF SequenceInv, GlowPhase, FanPhase, HotPhase, Combustion
<1>3. LoopInv
    BY <1>0 DEF LoopInv
<1>4. TimerInv
    BY <1>0 DEF TimerInv, TimerNeverLights, Waiting, Waits
<1>. QED
    BY <1>1, <1>2, <1>3, <1>4 DEF BurnerInv

(* What a step may do to the running call and its stack.                   *)
LEMMA CallStep ==
    ASSUME TypeOK, [Next]_vars
    PROVE  Running' \in Calls /\ below' \in Seq(Calls)
<1>. USE CallTypes
<1>a. /\ at \in Places /\ held \in States \cup {NotWaiting}
      /\ left \in Nat /\ pulse \in 0 .. LastPulse /\ below \in Seq(Calls)
    BY DEF TypeOK
<1>b. ASSUME Running' = Running \/ UNCHANGED call, UNCHANGED below
      PROVE  Running' \in Calls /\ below' \in Seq(Calls)
    BY <1>b DEF TypeOK, call, Running
<1>c. ASSUME NEW place \in Places, Go(place)
      PROVE  Running' \in Calls /\ below' \in Seq(Calls)
    BY <1>a, <1>c DEF Go, Running, Calls
<1>d. ASSUME NEW i \in 0 .. LastPulse, StartPulse(i)
      PROVE  Running' \in Calls /\ below' \in Seq(Calls)
    BY <1>a, <1>d DEF StartPulse, Running, Calls, Places, Waits
<1>e. {"pool", "begin", "ignite", "burn", "purge", "prime", "warm", "settle", "cooldown"} \subseteq Places
    BY DEF Places, Waits
<1>1. CASE UNCHANGED vars
    BY <1>1, <1>b DEF vars
<1>2. CASE EnterWait
  <2>1. systemState \in States /\ WaitTicks(at) \in Nat
    BY DEF TypeOK, WaitTicks
  <2>. QED
    BY <1>2, <1>a, <2>1 DEF EnterWait, Running, Calls
<1>3. CASE StartAttempt \/ Purged \/ Primed \/ Ignite \/ Pulsed \/ EarlyBurn
    BY <1>3, <1>c, <1>e DEF StartAttempt, Purged, Primed, Ignite, Pulsed, EarlyBurn
<1>4. CASE GiveUp \/ Abandon \/ SensorLost \/ BurnedOut \/ CooledDown
    BY <1>4, ReturnCall DEF GiveUp, Abandon, SensorLost, BurnedOut, CooledDown
<1>5. CASE Warmed \/ NextPulse
    BY <1>5, <1>a, <1>d DEF Warmed, NextPulse
<1>6. CASE \E t \in Readings \ {0} : ProveFlame(t) \/ WatchFlame(t)
    BY <1>6, <1>c, <1>e, ReturnCall DEF ProveFlame, WatchFlame
<1>7. CASE PoolDecides
    BY <1>7, <1>c, <1>e, ReturnCall DEF PoolDecides
<1>8. CASE \E t \in Readings : PoolMeasures(t)
    BY <1>8, <1>c, <1>e DEF PoolMeasures
<1>9. CASE PoolShutsDown \/ HeaterCommand \/ TurnOnOffSystem
    BY <1>9, <1>b DEF PoolShutsDown, HeaterCommand, TurnOnOffSystem
<1>10. CASE Timer
    BY <1>10, <1>e, PreemptCall DEF Timer, HeaterStarts, StopWebasto
<1>. QED
    BY <1>1, <1>2, <1>3, <1>4, <1>5, <1>6, <1>7, <1>8, <1>9, <1>10
    DEF Next, Controller, Sequence, Pool

(* Types are preserved; only a start below the limit counts an attempt.    *)
LEMMA TypeStep == TypeOK /\ [Next]_vars => TypeOK'
<1>. SUFFICES ASSUME TypeOK, [Next]_vars PROVE TypeOK'
    OBVIOUS
<1>a. /\ {"airFan"} \subseteq Modules /\ {"waterPump"} \subseteq Modules
      /\ {"glowPlug"} \subseteq Modules /\ {"fuelPump"} \subseteq Modules
      /\ {"cabinHeater"} \subseteq Modules
    BY DEF Modules
<1>b. /\ "OFF" \in States /\ "ON" \in States /\ "SYSTEM_STOPPING" \in States
      /\ "SYSTEM_SHUTDOWN" \in States /\ "REMOTE_STARTING" \in States
      /\ "REMOTE_STOPPING" \in States /\ "REMOTE_SHUTDOWN" \in States
    BY DEF States
<1>c. /\ on \subseteq Modules /\ systemState \in States /\ startingAttempts \in 0 .. MaxAttempts
      /\ initialTemperature \in Readings /\ previousTemperature \in Readings
    BY DEF TypeOK
<1>1. UNCHANGED wiring /\ needHeaterOn' \in BOOLEAN
  <2>1. UNCHANGED <<wiring, needHeaterOn>> \/ HeaterCommand
    BY DEF Next, Controller, Sequence, Pool, Timer, EnterWait, StartAttempt, GiveUp, Abandon, Purged,
           Primed, Ignite, Warmed, StartPulse, Pulsed, EarlyBurn, SensorLost, ProveFlame, WatchFlame,
           NextPulse, BurnedOut, CooledDown, HeaterStarts, StopWebasto, PoolMeasures, PoolDecides,
           PoolShutsDown, TurnOnOffSystem, Rest, vars
  <2>2. CASE UNCHANGED <<wiring, needHeaterOn>>
    BY <2>2 DEF TypeOK
  <2>3. CASE HeaterCommand
    <3>1. needHeaterOn' = ~needHeaterOn /\ UNCHANGED wiring
      BY <2>3 DEF HeaterCommand
    <3>. QED
      BY <3>1 DEF TypeOK
  <2>. QED
    BY <2>1, <2>2, <2>3
<1>2. on' \subseteq Modules
    BY <1>a, <1>c DEF Next, Controller, Sequence, Pool, Timer, EnterWait, StartAttempt, GiveUp, Abandon,
           Purged, Primed, Ignite, Warmed, StartPulse, Pulsed, EarlyBurn, SensorLost, ProveFlame,
           WatchFlame, NextPulse, BurnedOut, CooledDown, HeaterStarts, StopWebasto, HeaterCommand,
           PoolMeasures, PoolDecides, PoolShutsDown, TurnOnOffSystem, Reset, vars
<1>3. systemState' \in States
    BY <1>b, <1>c, Zenon DEF Next, Controller, Sequence, Pool, Timer, EnterWait, StartAttempt, GiveUp, Abandon,
           Purged, Primed, Ignite, Warmed, StartPulse, Pulsed, EarlyBurn, SensorLost, ProveFlame,
           WatchFlame, NextPulse, BurnedOut, CooledDown, HeaterStarts, StopWebasto, HeaterCommand,
           PoolMeasures, PoolDecides, PoolShutsDown, TurnOnOffSystem, vars
<1>4. /\ startingAttempts' \in 0 .. MaxAttempts
      /\ initialTemperature' \in Readings /\ previousTemperature' \in Readings
    BY <1>c DEF Next, Controller, Sequence, Pool, Timer, EnterWait, StartAttempt, GiveUp, Abandon,
           Purged, Primed, Ignite, Warmed, StartPulse, Pulsed, EarlyBurn, SensorLost, ProveFlame,
           WatchFlame, NextPulse, BurnedOut, CooledDown, HeaterStarts, StopWebasto, HeaterCommand,
           PoolMeasures, PoolDecides, PoolShutsDown, TurnOnOffSystem, memory, vars
<1>. QED
    BY <1>1, <1>2, <1>3, <1>4, CallStep DEF TypeOK, wiring

-----------------------------------------------------------------------------
(* Polled from a loop.                                                     *)

(* No step changes the caller.                                             *)
LEMMA CallerStays == [Next]_vars => caller' = caller
BY DEF Next, Controller, Sequence, Pool, Timer, EnterWait, StartAttempt, GiveUp, Abandon, Purged,
       Primed, Ignite, Warmed, StartPulse, Pulsed, EarlyBurn, SensorLost, ProveFlame, WatchFlame,
       NextPulse, BurnedOut, CooledDown, HeaterStarts, StopWebasto, HeaterCommand, PoolMeasures,
       PoolDecides, PoolShutsDown, TurnOnOffSystem, Rest, wiring, vars

(* Polled from a loop, nothing preempts the running call.                  *)
LEMMA LoopStep == TypeOK /\ LoopInv /\ [Next]_vars => LoopInv'
<1>. SUFFICES ASSUME TypeOK, LoopInv, [Next]_vars, caller' = "loop" PROVE below' = <<>> /\ left' = 0
    BY DEF LoopInv
<1>0. caller = "loop" /\ below = <<>> /\ left = 0
    BY CallerStays DEF LoopInv
<1>1. \/ UNCHANGED <<left, below>> \/ Return \/ EnterWait \/ Preempt("begin") \/ Preempt("cooldown")
    BY DEF Next, Controller, Sequence, Pool, Timer, EnterWait, StartAttempt, GiveUp, Abandon, Purged,
       Primed, Ignite, Warmed, StartPulse, Pulsed, EarlyBurn, SensorLost, ProveFlame, WatchFlame,
       NextPulse, BurnedOut, CooledDown, HeaterStarts, StopWebasto, HeaterCommand, PoolMeasures,
       PoolDecides, PoolShutsDown, TurnOnOffSystem, Go, call, vars
<1>2. CASE UNCHANGED <<left, below>>
    BY <1>0, <1>2
<1>3. CASE Return
    BY <1>0, <1>3, ReturnCall
<1>4. CASE EnterWait
    BY <1>0, <1>4 DEF EnterWait, WaitTicks
<1>5. CASE Preempt("begin") \/ Preempt("cooldown")
  <2>1. caller = "timer"
    BY <1>5 DEF Preempt
  <2>. QED
    BY <1>0, <2>1
<1>. QED
    BY <1>1, <1>2, <1>3, <1>4, <1>5

(* Every step keeps on what its phase needs, and the proof of the flame.   *)
LEMMA SequenceStep ==
    ASSUME TypeOK, SequenceInv, [Next]_vars, caller = "loop", below = <<>>
    PROVE  SequenceInv'
<1>0. Return => at' = "idle"
    BY ReturnCall
<1>a. pulse \in 0 .. LastPulse
    BY CallTypes DEF TypeOK
<1>. USE DEF TypeOK, SequenceInv, GlowPhase, FanPhase, HotPhase, Combustion, Go, Reset, memory, call
<1>1. CASE UNCHANGED vars
    BY <1>1 DEF vars
<1>2. CASE EnterWait \/ HeaterCommand \/ TurnOnOffSystem
    BY <1>2 DEF EnterWait, HeaterCommand, TurnOnOffSystem
<1>3. CASE StartAttempt
    BY <1>3 DEF StartAttempt
<1>4. CASE GiveUp \/ Abandon \/ SensorLost \/ BurnedOut
    BY <1>0, <1>4 DEF GiveUp, Abandon, SensorLost, BurnedOut
<1>5. CASE Purged \/ Primed \/ Ignite
    BY <1>5 DEF Purged, Primed, Ignite
<1>6. CASE Warmed
    BY <1>6 DEF Warmed, StartPulse
<1>7. CASE Pulsed
    BY <1>7, <1>a DEF Pulsed
<1>8. CASE EarlyBurn
    BY <1>8, <1>a DEF EarlyBurn
<1>9. ASSUME NEW t \in Readings, ProveFlame(t)
      PROVE  SequenceInv'
    BY <1>0, <1>9, <1>a DEF ProveFlame
<1>10. ASSUME NEW t \in Readings, WatchFlame(t)
       PROVE  SequenceInv'
    BY <1>0, <1>10, <1>a DEF WatchFlame, Rising
<1>11. CASE NextPulse
    BY <1>11, <1>a DEF NextPulse, StartPulse
<1>12. CASE CooledDown
    BY <1>0, <1>12 DEF CooledDown
<1>13. CASE PoolDecides \/ PoolShutsDown \/ \E t \in Readings : PoolMeasures(t)
    BY <1>0, <1>13 DEF PoolDecides, PoolShutsDown, PoolMeasures
<1>14. ~Timer
    BY DEF Timer, HeaterStarts, StopWebasto, Preempt
<1>. QED
    BY <1>1, <1>2, <1>3, <1>4, <1>5, <1>6, <1>7, <1>8, <1>9, <1>10, <1>11, <1>12, <1>13, <1>14
    DEF Next, Controller, Sequence, Pool

-----------------------------------------------------------------------------
(* Called from the timer.                                                  *)

(* A wait that still has time left never sees its purge expire.            *)
LEMMA NoExpiry ==
    ASSUME TypeOK, TimerInv, caller = "timer", Expired
    PROVE  at \notin {"purge", "prime", "warm", "pulse", "settle"}
<1>1. at # "purge"
  <2>. SUFFICES ASSUME at = "purge" PROVE FALSE
      OBVIOUS
  <2>1. left = 0 /\ StillDue(Running) /\ Running.at = "purge" /\ Running.left = 0
    BY DEF TimerInv, Expired, Running
  <2>2. 0 + startingAttempts + One(at = "begin") + One(systemState = "SYSTEM_STOPPING") > StartTicks
    BY <2>1 DEF StillDue
  <2>3. /\ startingAttempts \in 0 .. MaxAttempts
        /\ One(at = "begin") = 0 /\ One(systemState = "SYSTEM_STOPPING") \in 0 .. 1
    BY DEF TypeOK, One
  <2>. QED
    BY <2>2, <2>3
<1>. QED
    BY <1>1 DEF TimerInv

(* The budget of the calls that wait does not shrink.                      *)
Budget == startingAttempts + One(at = "begin") + One(systemState = "SYSTEM_STOPPING")

LEMMA DueStays ==
    ASSUME TypeOK, TypeOK', NEW c \in Calls, NEW d \in Calls, StillDue(c),
           d.at = c.at, d.held = c.held, d.left + Budget' >= c.left + Budget,
           needHeaterOn' = needHeaterOn
    PROVE  StillDue(d)'
<1>1. /\ c.left \in Int /\ d.left \in Int
      /\ startingAttempts \in Int /\ startingAttempts' \in Int
    BY DEF TypeOK, Calls
<1>2. Budget \in Int /\ Budget' \in Int
    BY <1>1 DEF Budget, One
<1>3. c.left + startingAttempts + One(at = "begin") + One(systemState = "SYSTEM_STOPPING") = c.left + Budget
    BY <1>1, <1>2 DEF Budget, One
<1>4. (d.left + startingAttempts + One(at = "begin") + One(systemState = "SYSTEM_STOPPING"))' = d.left + Budget'
    BY <1>1, <1>2 DEF Budget, One
<1>. QED
    BY <1>1, <1>2, <1>3, <1>4 DEF StillDue

(* A step that keeps the budget keeps what every waiting call is due.      *)
LEMMA AllDueStay ==
    ASSUME TypeOK, TypeOK', Budget' >= Budget, needHeaterOn' = needHeaterOn
    PROVE  \A c \in Calls : StillDue(c) => StillDue(c)'
<1>. SUFFICES ASSUME NEW c \in Calls, StillDue(c) PROVE StillDue(c)'
    OBVIOUS
<1>1. Budget \in Int /\ Budget' \in Int /\ c.left \in Int
    BY DEF TypeOK, Budget, One, Calls
<1>2. c.left + Budget' >= c.left + Budget
    BY <1>1
<1>. QED
    BY <1>2, DueStays

(* A call that returns resumes one that still waits, or none is left.      *)
LEMMA Resume ==
    ASSUME TypeOK, TypeOK', TimerInv, caller = "timer", caller' = "timer", Return,
           needHeaterOn' = needHeaterOn, TimerNeverLights',
           systemState' \in {"OFF", "SYSTEM_STOPPING"},
           systemState' = "SYSTEM_STOPPING" => startingAttempts' = MaxAttempts,
           below # <<>> => \A c \in Calls : StillDue(c) => StillDue(c)'
    PROVE  TimerInv'
<1>1. CASE below = <<>>
  <2>1. at' = "idle" /\ below' = <<>> /\ held' = NotWaiting
    BY <1>1, ReturnCall
  <2>. QED
    BY <2>1 DEF TimerInv, Waiting, Waits
<1>2. CASE below # <<>>
  <2>1. /\ 1 \in DOMAIN below /\ Running' = below[1]
        /\ \A i \in DOMAIN below' : i + 1 \in DOMAIN below /\ below'[i] = below[i + 1]
    BY <1>2, ReturnCall
  <2>2. \A i \in DOMAIN below : below[i] \in Calls /\ StillDue(below[i])
    BY LenProperties, ElementOfSeq DEF TypeOK, TimerInv
  <2>3. StillDue(Running)'
    BY <1>2, <2>1, <2>2 DEF StillDue
  <2>4. \A i \in DOMAIN below' : StillDue(below[i])'
    BY <1>2, <2>1, <2>2 DEF StillDue
  <2>5. /\ at' \in {"purge", "cooldown"}
        /\ at' = "purge" <=> needHeaterOn'
        /\ at' = "purge" => held' = "OFF"
    BY <2>3 DEF StillDue, Running
  <2>6. at' = "purge" => Waiting'
    BY <2>5 DEF Waiting, Waits, NotWaiting
  <2>. QED
    BY <2>3, <2>4, <2>5, <2>6 DEF TimerInv
<1>. QED
    BY <1>1, <1>2

(* The timer interrupts a wait: what it has left shrinks by a period, and  *)
(* the start that begins makes up for it.                                  *)
LEMMA TimerPreempts ==
    ASSUME TypeOK, TypeOK', TimerInv, Timer
    PROVE  TimerInv'
<1>. DEFINE place == IF needHeaterOn THEN "begin" ELSE "cooldown"
<1>1. /\ Preempt(place) /\ place \in Places
      /\ UNCHANGED <<caller, needHeaterOn, systemState, startingAttempts>>
      /\ TimerNeverLights => TimerNeverLights'
    BY DEF Timer, HeaterStarts, StopWebasto, Rest, wiring, memory, Places, Waits, TimerNeverLights
<1>. HIDE DEF place
<1>2. /\ at' = place /\ held' = NotWaiting /\ caller = "timer"
      /\ at = "idle" => below' = <<>>
      /\ at # "idle" =>
           /\ Waiting /\ (at = "cooldown" \/ ~StateChanged)
           /\ \A i \in DOMAIN below' : \/ below'[i] = Sooner(Running)
                                       \/ \E j \in DOMAIN below : below'[i] = Sooner(below[j])
    BY <1>1, PreemptCall
<1>3. ASSUME NEW c \in Calls, StillDue(c), at # "idle"
      PROVE  StillDue(Sooner(c))'
  <2>. DEFINE d == Sooner(c)
  <2>1. d \in Calls /\ d.at = c.at /\ d.held = c.held /\ d.left + 1 >= c.left
    BY SoonerCall
  <2>2. CASE needHeaterOn
    <3>1. place = "begin" /\ at # "begin"
      BY <1>2, <1>3, <2>2 DEF place, Waiting, Waits
    <3>2. Budget' = Budget + 1 /\ Budget \in Int /\ c.left \in Int /\ d.left \in Int
      BY <1>1, <1>2, <2>1, <3>1 DEF Budget, One, TypeOK, Calls
    <3>3. d.left + Budget' >= c.left + Budget
      BY <2>1, <3>2
    <3>4. \A e \in Calls : e = d => StillDue(e)'
      BY <1>1, <1>3, <2>1, <3>3, DueStays
    <3>. QED
      BY <2>1, <3>4 DEF StillDue
  <2>3. CASE ~needHeaterOn
    <3>1. c.at = "cooldown"
      BY <1>3, <2>3 DEF StillDue
    <3>. QED
      BY <1>1, <2>1, <2>3, <3>1 DEF StillDue
  <2>. QED
    BY <2>2, <2>3
<1>4. \A i \in DOMAIN below' : StillDue(below[i])'
  <2>1. CASE at = "idle"
    BY <1>2, <2>1
  <2>2. CASE at # "idle"
    <3>1. Running \in Calls /\ StillDue(Running)
      BY <1>2, <2>2 DEF TypeOK, TimerInv
    <3>2. \A j \in DOMAIN below : below[j] \in Calls /\ StillDue(below[j])
      BY <1>2, LenProperties, ElementOfSeq DEF TypeOK, TimerInv
    <3>3. \A i \in DOMAIN below' : \E c \in Calls : StillDue(c) /\ below'[i] = Sooner(c)
      BY <1>2, <2>2, <3>1, <3>2
    <3>4. \A i \in DOMAIN below' : \E c \in Calls : StillDue(Sooner(c))' /\ below'[i] = Sooner(c)
      BY <1>3, <2>2, <3>3
    <3>. QED
      BY <3>4 DEF StillDue
  <2>. QED
    BY <2>1, <2>2
<1>5. at' = "begin" /\ below' # <<>> => systemState' = "OFF"
  <2>. SUFFICES ASSUME at' = "begin", at # "idle" PROVE systemState = "OFF"
      BY <1>1, <1>2
  <2>1. needHeaterOn
    BY <1>2 DEF place
  <2>2. at # "cooldown" /\ Waiting /\ StillDue(Running) /\ ~StateChanged
    BY <1>2, <2>1 DEF TimerInv
  <2>3. held = "OFF"
    BY <2>2 DEF StillDue, Running
  <2>. QED
    BY <2>2, <2>3 DEF StateChanged
<1>6. ~Waiting'
    BY <1>2 DEF Waiting
<1>7. /\ at' \in {"begin", "cooldown"}
      /\ at' = "begin" => needHeaterOn'
      /\ at' = "cooldown" => ~needHeaterOn'
    BY <1>1, <1>2 DEF place
<1>. QED
    BY <1>1, <1>2, <1>4, <1>5, <1>6, <1>7 DEF TimerInv

(* Called from the timer, the controller stays in its first wait.          *)
LEMMA TimerStep ==
    ASSUME TypeOK, TypeOK', TimerInv, [Next]_vars, caller = "timer"
    PROVE  TimerInv'
<1>1. caller' = "timer"
    BY CallerStays
<1>2. CASE UNCHANGED vars
    BY <1>2 DEF TimerInv, TimerNeverLights, StillDue, Waiting, Running, vars, wiring, memory, call
<1>3. CASE EnterWait
  <2>1. /\ at \in {"purge", "cooldown"} /\ held' = systemState /\ held' # NotWaiting
        /\ left' = WaitTicks(at) /\ ~Waiting
        /\ UNCHANGED <<caller, needHeaterOn, systemState, startingAttempts, on, at, below>>
    BY <1>3 DEF EnterWait, TimerInv, Waits, Waiting, wiring, memory, NotWaiting
  <2>2. Budget' = Budget /\ Budget \in Int
    BY <2>1 DEF Budget, TypeOK, One
  <2>3. \A c \in Calls : StillDue(c) => StillDue(c)'
    BY <2>1, <2>2, AllDueStay
  <2>4. \A i \in DOMAIN below' : StillDue(below[i])'
    <3>1. \A i \in DOMAIN below : below[i] \in Calls /\ StillDue(below[i])
      BY LenProperties, ElementOfSeq DEF TypeOK, TimerInv
    <3>. QED
      BY <2>1, <2>3, <3>1 DEF StillDue
  <2>5. StillDue(Running)'
    <3>1. CASE at = "purge"
      <4>1. systemState = "OFF" /\ startingAttempts > 0 /\ needHeaterOn
        BY <2>1, <3>1 DEF TimerInv
      <4>2. left' = StartTicks
        BY <2>1, <3>1 DEF WaitTicks
      <4>. QED
        BY <2>1, <3>1, <4>1, <4>2 DEF StillDue, Running, One, TypeOK
    <3>2. CASE at = "cooldown"
      BY <2>1, <3>2 DEF StillDue, Running, TimerInv
    <3>. QED
      BY <2>1, <3>1, <3>2
  <2>6. Waiting'
    BY <2>1 DEF Waiting, Waits
  <2>. QED
    BY <2>1, <2>4, <2>5, <2>6 DEF TimerInv, TimerNeverLights
<1>4. CASE StartAttempt
  <2>1. /\ at = "begin" /\ at' = "purge" /\ held' = NotWaiting
        /\ startingAttempts < MaxAttempts /\ startingAttempts' = startingAttempts + 1
        /\ on' = Reset(on) \cup {"airFan"}
        /\ UNCHANGED <<needHeaterOn, systemState, below>>
    BY <1>4 DEF StartAttempt, Go, Rest
  <2>2. startingAttempts \in Nat
    BY DEF TypeOK
  <2>3. systemState = "OFF"
    BY <2>1, <2>2 DEF TimerInv
  <2>4. Budget' = Budget /\ Budget \in Int
    BY <2>1, <2>2 DEF Budget, One
  <2>5. \A i \in DOMAIN below' : StillDue(below[i])'
    <3>1. \A i \in DOMAIN below : below[i] \in Calls /\ StillDue(below[i])
      BY LenProperties, ElementOfSeq DEF TypeOK, TimerInv
    <3>2. \A c \in Calls : StillDue(c) => StillDue(c)'
      BY <2>1, <2>4, AllDueStay
    <3>. QED
      BY <2>1, <3>1, <3>2 DEF StillDue
  <2>6. TimerNeverLights'
    BY <2>1 DEF TimerInv, TimerNeverLights, Reset
  <2>7. ~Waiting'
    BY <2>1 DEF Waiting
  <2>8. needHeaterOn
    BY <2>1 DEF TimerInv
  <2>. QED
    BY <2>1, <2>2, <2>3, <2>5, <2>6, <2>7, <2>8 DEF TimerInv
<1>5. CASE GiveUp
  <2>1. /\ at = "begin" /\ Return /\ systemState' = "SYSTEM_STOPPING"
        /\ UNCHANGED <<caller, needHeaterOn, startingAttempts, on>>
        /\ startingAttempts >= MaxAttempts
    BY <1>5 DEF GiveUp, Rest, wiring, memory
  <2>2. startingAttempts = MaxAttempts
    BY <2>1 DEF TypeOK
  <2>3. below # <<>> => \A c \in Calls : StillDue(c) => StillDue(c)'
    <3>. SUFFICES ASSUME below # <<>> PROVE Budget' >= Budget
        BY <2>1, AllDueStay
    <3>1. systemState = "OFF"
      BY <2>1 DEF TimerInv
    <3>. QED
      BY <2>1, <2>2, <3>1 DEF Budget, One
  <2>. QED
    BY <1>1, <2>1, <2>2, <2>3, Resume DEF TimerInv, TimerNeverLights
<1>6. CASE Abandon \/ CooledDown
  <2>1. at \in {"purge", "cooldown"} /\ Return /\ UNCHANGED <<caller, needHeaterOn, startingAttempts>>
    BY <1>6 DEF Abandon, CooledDown, Interrupted, Waiting, Waits, TimerInv, Rest, wiring, memory
  <2>2. TimerNeverLights'
    BY <1>6 DEF TimerInv, TimerNeverLights, Abandon, CooledDown, Reset, Rest, wiring
  <2>3. /\ systemState' \in {"OFF", "SYSTEM_STOPPING"}
        /\ systemState' = "SYSTEM_STOPPING" => systemState = "SYSTEM_STOPPING"
        /\ at = "purge" => systemState' = systemState
    BY <1>6 DEF TimerInv, Abandon, CooledDown
  <2>4. \A c \in Calls : StillDue(c) => StillDue(c)'
    <3>1. CASE at = "purge"
      <4>1. Budget' >= Budget
        BY <2>1, <2>3, <3>1 DEF Budget, One, TypeOK
      <4>. QED
        BY <2>1, <4>1, AllDueStay
    <3>2. CASE at = "cooldown"
      BY <2>1, <3>2 DEF TimerInv, StillDue
    <3>. QED
      BY <2>1, <3>1, <3>2
  <2>. QED
    BY <1>1, <2>1, <2>2, <2>3, <2>4, Resume DEF TimerInv
<1>7. CASE Timer
    BY <1>7, TimerPreempts
<1>8. CASE HeaterCommand
  <2>1. UNCHANGED <<caller, systemState, startingAttempts, on, at, held, below>> /\ at = "idle"
    BY <1>8 DEF HeaterCommand, wiring, memory, call
  <2>. QED
    BY <2>1 DEF TimerInv, TimerNeverLights, Waiting, Waits
<1>9. ~(Purged \/ Primed \/ Ignite \/ Warmed \/ Pulsed \/ EarlyBurn \/ SensorLost \/ NextPulse \/ BurnedOut)
    BY NoExpiry DEF TimerInv, Purged, Primed, Ignite, Warmed, Pulsed, EarlyBurn, SensorLost, NextPulse, BurnedOut
<1>10. ~(\E t \in Readings \ {0} : ProveFlame(t) \/ WatchFlame(t)) /\ ~PoolDecides /\ ~Pool /\ ~TurnOnOffSystem
    BY DEF TimerInv, ProveFlame, WatchFlame, PoolDecides, Pool, PoolMeasures, PoolShutsDown, TurnOnOffSystem
<1>. QED
    BY <1>2, <1>3, <1>4, <1>5, <1>6, <1>7, <1>8, <1>9, <1>10 DEF Next, Controller, Sequence

-----------------------------------------------------------------------------
(* The burner's invariant and what follows from it.                        *)

(* A caller whose calls do not get beyond the purge lights nothing.        *)
LEMMA TimerIsEarly == TypeOK /\ TimerInv /\ caller = "timer" => SequenceInv
BY DEF TimerInv, TimerNeverLights, SequenceInv, GlowPhase, FanPhase, HotPhase, Combustion

(* What is on in each phase of the sequence, and how many periods and      *)
(* attempts each waiting call has left, in every reachable state.          *)
THEOREM BurnerInvariant == Spec => [](TypeOK /\ SequenceInv /\ LoopInv /\ TimerInv)
<1>1. BurnerInv /\ [Next]_vars => BurnerInv'
  <2>. SUFFICES ASSUME TypeOK, LoopInv, SequenceInv, TimerInv, [Next]_vars PROVE BurnerInv'
      BY DEF BurnerInv
  <2>1. TypeOK' /\ LoopInv' /\ caller' = caller /\ caller \in {"loop", "timer"}
    BY TypeStep, LoopStep, CallerStays DEF TypeOK
  <2>2. CASE caller = "loop"
    <3>1. SequenceInv'
      BY <2>2, SequenceStep DEF LoopInv
    <3>2. TimerInv'
      BY <2>1, <2>2 DEF TimerInv
    <3>. QED
      BY <2>1, <3>1, <3>2 DEF BurnerInv
  <2>3. CASE caller = "timer"
    <3>1. TimerInv'
      BY <2>1, <2>3, TimerStep
    <3>2. (TypeOK /\ TimerInv /\ caller = "timer" => SequenceInv)'
      BY TimerIsEarly, PTL
    <3>. QED
      BY <2>1, <2>3, <3>1, <3>2 DEF BurnerInv
  <2>. QED
    BY <2>1, <2>2, <2>3
<1>2. Spec => []BurnerInv
    BY BurnerInit, <1>1, PTL DEF Spec
<1>. QED
    BY <1>2, PTL DEF BurnerInv

(* In every combustion the fuel pump runs in the pulses only, with cooling *)
(* water, and with a hot glow plug or the air fan.                         *)
THEOREM FuelSafety == Spec => []FuelIsSafe
<1>1. TypeOK /\ SequenceInv => FuelIsSafe
  <2>. SUFFICES ASSUME TypeOK, SequenceInv PROVE FuelIsSafe
      OBVIOUS
  <2>1. pulse \in Nat
    BY CallTypes DEF TypeOK
  <2>. QED
    BY <2>1 DEF SequenceInv, FuelIsSafe, GlowPhase, FanPhase, Combustion
<1>. QED
    BY <1>1, BurnerInvariant, PTL

(* The cabin heater is off from the reset of a start until the flame of    *)
(* that start is proved.                                                   *)
THEOREM CabinHeatSafety == Spec => []CabinHeatIsProved
<1>1. SequenceInv => CabinHeatIsProved
    BY DEF SequenceInv, CabinHeatIsProved, HotPhase
<1>. QED
    BY <1>1, BurnerInvariant, PTL

(* Called from the timer the burner is never lit: for every thermocouple,  *)
(* every cool-down and every number of attempts smaller than the periods   *)
(* in the first wait.                                                      *)
THEOREM TimerLightsNothing == Spec => []TimerNeverLights
<1>1. TimerInv => TimerNeverLights
    BY DEF TimerInv, TimerNeverLights
<1>. QED
    BY <1>1, BurnerInvariant, PTL

(* The controller's variables keep their types: no sequence of calls and   *)
(* presses counts more starts than are allowed.                            *)
THEOREM BurnerTypes == Spec => []TypeOK
BY BurnerInvariant, PTL

-----------------------------------------------------------------------------
(* Without a usable reading the sequence stays in its first phase.         *)
NoSensor == \A t \in Readings : Critical(t)
Flame == {"fuelPump", "glowPlug", "cabinHeater"}
EarlyOnly ==
    NoSensor /\ caller = "loop" =>
        /\ at \in {"idle", "pool", "begin", "purge"}
        /\ on \cap Flame = {}

(* With critical readings only, no wait of a start ever expires.           *)
LEMMA EarlyOnlyStep == TypeOK /\ LoopInv /\ EarlyOnly /\ [Next]_vars => EarlyOnly'
<1>. SUFFICES ASSUME TypeOK, LoopInv, EarlyOnly, [Next]_vars, NoSensor, caller = "loop" PROVE EarlyOnly'
    BY CallerStays DEF EarlyOnly, NoSensor, Critical
<1>0. ~Expired
    BY DEF Expired, NoSensor
<1>1. Return => at' = "idle"
    BY ReturnCall DEF LoopInv
<1>. USE DEF EarlyOnly, Flame, Go, Reset
<1>2. CASE UNCHANGED vars
    BY <1>2 DEF vars, call
<1>3. CASE EnterWait \/ StartAttempt \/ GiveUp \/ Abandon
    BY <1>1, <1>3 DEF EnterWait, StartAttempt, GiveUp, Abandon
<1>4. CASE Purged \/ Primed \/ Ignite \/ Warmed \/ Pulsed \/ EarlyBurn \/ SensorLost \/ NextPulse \/ BurnedOut
    BY <1>0, <1>4 DEF Purged, Primed, Ignite, Warmed, Pulsed, EarlyBurn, SensorLost, NextPulse, BurnedOut
<1>5. CASE \E t \in Readings \ {0} : ProveFlame(t) \/ WatchFlame(t)
    BY <1>5 DEF ProveFlame, WatchFlame
<1>6. CASE CooledDown
    BY <1>6 DEF CooledDown
<1>7. CASE PoolDecides \/ PoolShutsDown \/ \E t \in Readings : PoolMeasures(t)
    BY <1>1, <1>7 DEF PoolDecides, PoolShutsDown, PoolMeasures, call
<1>8. CASE TurnOnOffSystem
    BY <1>8 DEF TurnOnOffSystem, call
<1>9. ~Timer /\ ~HeaterCommand
    BY DEF Timer, HeaterStarts, StopWebasto, Preempt, HeaterCommand
<1>. QED
    BY <1>2, <1>3, <1>4, <1>5, <1>6, <1>7, <1>8, <1>9 DEF Next, Controller, Sequence, Pool

(* As long as measureTemp returns nothing usable, the firmware cannot      *)
(* light the burner: no fuel, no glow plug, no cabin heater.               *)
THEOREM NoFuelWithoutReading == Spec => []NoFuelWithoutSensor
<1>1. Init => EarlyOnly
    BY DEF Init, EarlyOnly
<1>2. TypeOK /\ TimerInv /\ EarlyOnly => NoFuelWithoutSensor
    BY DEF TypeOK, TimerInv, TimerNeverLights, EarlyOnly, NoSensor, Flame, NoFuelWithoutSensor
<1>. QED
    BY <1>1, <1>2, EarlyOnlyStep, BurnerInvariant, PTL DEF Spec

-----------------------------------------------------------------------------
(* Polled from a loop, the controller returns after a bounded number of    *)
(* steps.                                                                  *)

(* One step for the entry of the wait in progress, and five for each       *)
(* pulse: two waits, each entered and left, and the burning between them.  *)
Entering == IF held = NotWaiting THEN 1 ELSE 0
PulsesLeft == 5 * (LastPulse - pulse)

StepsLeft ==
    CASE at = "idle" -> 0
      [] at = "cooldown" -> 1 + Entering
      [] at = "settle" -> PulsesLeft + 1 + Entering
      [] at = "burn" -> PulsesLeft + 3
      [] at = "pulse" -> PulsesLeft + 4 + Entering
      [] at = "warm" -> 5 * LastPulse + 6 + Entering
      [] at = "ignite" -> 5 * LastPulse + 8
      [] at = "prime" -> 5 * LastPulse + 9 + Entering
      [] at = "purge" -> 5 * LastPulse + 11 + Entering
      [] at = "begin" -> 5 * LastPulse + 13
      [] at = "pool" -> 5 * LastPulse + 14

LEMMA StepsRange == TypeOK => StepsLeft \in 0 .. (5 * LastPulse + 14)
<1>. SUFFICES ASSUME TypeOK PROVE StepsLeft \in 0 .. (5 * LastPulse + 14)
    OBVIOUS
<1>1. pulse \in 0 .. LastPulse /\ at \in Places
    BY CallTypes DEF TypeOK
<1>2. PulsesLeft \in 0 .. (5 * LastPulse) /\ Entering \in 0 .. 1
    BY <1>1 DEF PulsesLeft, Entering
<1>3. CASE at = "idle"
    BY <1>2, <1>3 DEF StepsLeft
<1>4. CASE at = "cooldown"
    BY <1>2, <1>4 DEF StepsLeft
<1>5. CASE at = "settle"
    BY <1>2, <1>5 DEF StepsLeft
<1>6. CASE at = "burn"
    BY <1>2, <1>6 DEF StepsLeft
<1>7. CASE at = "pulse"
    BY <1>2, <1>7 DEF StepsLeft
<1>8. CASE at = "warm"
    BY <1>2, <1>8 DEF StepsLeft
<1>9. CASE at = "ignite"
    BY <1>2, <1>9 DEF StepsLeft
<1>10. CASE at = "prime"
    BY <1>2, <1>10 DEF StepsLeft
<1>11. CASE at = "purge"
    BY <1>2, <1>11 DEF StepsLeft
<1>12. CASE at = "begin"
    BY <1>2, <1>12 DEF StepsLeft
<1>13. CASE at = "pool"
    BY <1>2, <1>13 DEF StepsLeft
<1>. QED
    BY <1>1, <1>3, <1>4, <1>5, <1>6, <1>7, <1>8, <1>9, <1>10, <1>11, <1>12, <1>13 DEF Places, Waits

LEMMA StepsDecrease ==
    ASSUME TypeOK, LoopInv, caller = "loop", Controller
    PROVE  StepsLeft' < StepsLeft
<1>. USE DEF Go, StepsLeft, Entering, PulsesLeft
<1>1. /\ pulse \in 0 .. LastPulse /\ NotWaiting \notin States
      /\ held \in States \cup {NotWaiting}
    BY CallTypes DEF TypeOK, NotWaiting, States
<1>0. Return => at' = "idle"
    BY ReturnCall DEF LoopInv
<1>2. CASE EnterWait
  <2>1. held' # NotWaiting
    BY <1>1, <1>2 DEF EnterWait, TypeOK
  <2>. QED
    BY <1>1, <1>2, <2>1 DEF EnterWait, Waits
<1>3. CASE StartAttempt \/ GiveUp
    BY <1>0, <1>1, <1>3 DEF StartAttempt, GiveUp
<1>4. CASE Abandon
  <2>1. at \in Waits /\ at' = "idle"
    BY <1>0, <1>4 DEF Abandon, Interrupted, Waiting
  <2>. QED
    BY <1>1, <2>1 DEF Waits
<1>5. CASE Purged \/ Primed \/ Ignite
    BY <1>1, <1>5 DEF Purged, Primed, Ignite, Expired, Waiting
<1>6. CASE Warmed
    BY <1>1, <1>6 DEF Warmed, StartPulse, Expired, Waiting
<1>7. CASE Pulsed
    BY <1>1, <1>7 DEF Pulsed, Expired, Waiting
<1>8. CASE EarlyBurn \/ SensorLost
    BY <1>0, <1>1, <1>8 DEF EarlyBurn, SensorLost
<1>9. ASSUME NEW t \in Readings, ProveFlame(t) \/ WatchFlame(t)
      PROVE  StepsLeft' < StepsLeft
  <2>1. at = "burn" /\ (at' = "idle" \/ (at' = "settle" /\ held' = NotWaiting /\ pulse' = pulse))
    BY <1>0, <1>9 DEF ProveFlame, WatchFlame
  <2>. QED
    BY <1>1, <2>1
<1>10. CASE NextPulse
    BY <1>1, <1>10 DEF NextPulse, StartPulse, Expired, Waiting
<1>11. CASE BurnedOut \/ CooledDown
    BY <1>0, <1>1, <1>11 DEF BurnedOut, CooledDown, Expired, Waiting
<1>12. CASE PoolDecides
    BY <1>0, <1>1, <1>12 DEF PoolDecides
<1>. QED
    BY <1>2, <1>3, <1>4, <1>5, <1>6, <1>7, <1>8, <1>9, <1>10, <1>11, <1>12
    DEF Controller, Sequence

(* Outside the controller only the switch acts, and it moves nothing.      *)
LEMMA StepsElsewhere ==
    ASSUME [Next]_vars, ~Controller, at # "idle", caller = "loop"
    PROVE  StepsLeft' = StepsLeft
<1>1. UNCHANGED <<at, held, pulse>>
    BY DEF Next, Pool, PoolMeasures, PoolShutsDown, Timer, HeaterStarts, StopWebasto, Preempt,
           HeaterCommand, TurnOnOffSystem, call, vars
<1>. QED
    BY <1>1 DEF StepsLeft, Entering, PulsesLeft

(* A call of the controller from poolWebasto takes at most                 *)
(* 5 * LastPulse + 14 steps and none of them repeats, whatever the switch  *)
(* and the sensor do: the part of ControllerReturns that fairness has no   *)
(* share in, for every number of pulses.                                   *)
THEOREM SequenceBounded ==
    Spec => /\ [](StepsLeft \in 0 .. (5 * LastPulse + 14))
            /\ [][ caller = "loop" =>
                    /\ Controller => StepsLeft' < StepsLeft
                    /\ at # "idle" => StepsLeft' <= StepsLeft ]_vars
<1>1. TypeOK => StepsLeft \in 0 .. (5 * LastPulse + 14)
    BY StepsRange
<1>2. (TypeOK => StepsLeft \in 0 .. (5 * LastPulse + 14))'
    BY <1>1, PTL
<1>3. ASSUME TypeOK, TypeOK', LoopInv, [Next]_vars
      PROVE  [ caller = "loop" => /\ Controller => StepsLeft' < StepsLeft
                                  /\ at # "idle" => StepsLeft' <= StepsLeft ]_vars
  <2>1. StepsLeft \in Int /\ StepsLeft' \in Int
    BY <1>1, <1>2, <1>3
  <2>2. CASE Controller
    BY <1>3, <2>1, <2>2, StepsDecrease
  <2>3. CASE ~Controller
    BY <1>3, <2>1, <2>3, StepsElsewhere
  <2>. QED
    BY <2>2, <2>3
<1>. QED
    BY <1>1, <1>3, BurnerInvariant, PTL DEF Spec

-----------------------------------------------------------------------------
(* A burner that is off is cold.                                           *)

(* The states in which the firmware takes the burner to be off.            *)
OffStates == {"OFF", "REMOTE_STARTING", "REMOTE_SHUTDOWN"}

(* From the ignition to the end of the sequence systemState is not one of  *)
(* them: Ignite overwrites it, and the switch turns ON into                *)
(* REMOTE_STOPPING.                                                        *)
ColdInv ==
    caller = "loop" =>
        /\ at \in {"warm"} \cup Combustion => systemState \notin OffStates
        /\ systemState \in OffStates => on \cap {"glowPlug", "cabinHeater"} = {}

LEMMA ColdStep == TypeOK /\ LoopInv /\ ColdInv /\ [Next]_vars => ColdInv'
<1>. SUFFICES ASSUME TypeOK, LoopInv, ColdInv, [Next]_vars, caller = "loop" PROVE ColdInv'
    BY CallerStays DEF ColdInv
<1>0. Return => at' = "idle"
    BY ReturnCall DEF LoopInv
<1>. USE DEF ColdInv, OffStates, Combustion, Go, Reset
<1>1. CASE UNCHANGED vars
    BY <1>1 DEF vars, call
<1>2. CASE EnterWait
    BY <1>2 DEF EnterWait
<1>3. CASE StartAttempt \/ GiveUp \/ Abandon
    BY <1>0, <1>3 DEF StartAttempt, GiveUp, Abandon
<1>4. CASE Purged \/ Primed \/ Ignite
    BY <1>4 DEF Purged, Primed, Ignite
<1>5. CASE Warmed \/ Pulsed
    BY <1>5 DEF Warmed, StartPulse, Pulsed
<1>6. CASE EarlyBurn \/ SensorLost \/ NextPulse \/ BurnedOut
    BY <1>0, <1>6 DEF EarlyBurn, SensorLost, NextPulse, StartPulse, BurnedOut
<1>7. CASE \E t \in Readings \ {0} : ProveFlame(t) \/ WatchFlame(t)
    BY <1>0, <1>7 DEF ProveFlame, WatchFlame
<1>8. CASE CooledDown
    BY <1>0, <1>8 DEF CooledDown
<1>9. CASE PoolDecides \/ PoolShutsDown \/ \E t \in Readings : PoolMeasures(t)
    BY <1>0, <1>9 DEF PoolDecides, PoolShutsDown, PoolMeasures, call
<1>10. CASE TurnOnOffSystem
    BY <1>10 DEF TurnOnOffSystem, call
<1>11. ~Timer /\ ~HeaterCommand
    BY DEF Timer, HeaterStarts, StopWebasto, Preempt, HeaterCommand
<1>. QED
    BY <1>1, <1>2, <1>3, <1>4, <1>5, <1>6, <1>7, <1>8, <1>9, <1>10, <1>11
    DEF Next, Controller, Sequence, Pool

(* While systemState says that the burner is off, or that a start or its   *)
(* cancellation is still to be served, the glow plug and the cabin heater  *)
(* are off: resetAllModules covers them on every path (it has no call for  *)
(* the fuel pump, of which this is not true: PumpIsOffAfterReset).         *)
THEOREM OffIsCold ==
    Spec => [](systemState \in OffStates => on \cap {"glowPlug", "cabinHeater"} = {})
<1>1. Init => ColdInv
    BY DEF Init, ColdInv, OffStates, Combustion
<1>2. TypeOK /\ TimerInv /\ ColdInv => (systemState \in OffStates => on \cap {"glowPlug", "cabinHeater"} = {})
    BY DEF TypeOK, TimerInv, TimerNeverLights, ColdInv
<1>. QED
    BY <1>1, <1>2, ColdStep, BurnerInvariant, PTL DEF Spec
=============================================================================
