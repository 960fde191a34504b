---------------------------- MODULE CommandDesk ----------------------------
(* The desk between the sockets and the city's one worker thread             *)
(* (crates/sprawling/src/serving.rs), and the worker's loop around it.       *)
(*                                                                           *)
(* Socket tasks, the console and the enrolment route post commands; the      *)
(* worker takes them one at a time, carries each out to its end, looks at    *)
(* the desk again at every safe point of a run it is driving, reads the      *)
(* schedule when nothing arrived, and stops when it is told to close.        *)
(*                                                                           *)
(* Everything done under the desk's mutex is one step. The two things that   *)
(* are not are kept apart: `close` stores its flag without the lock, and     *)
(* `wait` holds the lock from its look at the flag until the condition       *)
(* variable has put the thread to sleep.                                     *)
EXTENDS Naturals, Sequences, SequencesExt

CONSTANTS Keys,       \* idempotency keys (kernel::IdemKey)
          NoKey,      \* what Command::idem answers for a keyless command
          Runs, NoRun,
          Jobs,       \* entries of the schedule
          Asks,       \* the commands the clients send
          MaxQueue,   \* bound: how long the line gets
          MaxLate,    \* bound: posts after close, from sockets still open
          MaxTurns    \* bound: runs and safe points in one command or tick

VARIABLES queue,     \* Waiting::queue
          keys,      \* Waiting::keys
          closing,   \* CommandDesk::closing
          pc,        \* where the worker thread is
          carrying,  \* the command an Underway guard is held for, or Nothing
          run,       \* the run being driven, or NoRun
          fuel,      \* turns left under MaxTurns
          due,       \* entries whose firing lies after last_tick
          agenda,    \* entries this tick has still to dispatch
          attempted, \* history: entries dispatched, or refused, since due
          owed,      \* history: commands in line at close() still in line
          late       \* posts since close()

desk == <<queue, keys>>
schedule == <<due, agenda, attempted>>
deskVars == <<queue, keys, closing, pc, carrying, run, fuel, due, agenda,
              attempted, owed, late>>

-----------------------------------------------------------------------------
(* Commands. A dispatch drives runs; Cancel and Steer name the run they are  *)
(* for; every other verb is "plain".                                         *)
Command == [kind : {"dispatch", "plain"}, key : Keys \cup {NoKey}, run : {NoRun}]
           \cup [kind : {"cancel", "steer"}, key : Keys, run : Runs]

Nothing == [kind |-> "nothing", key |-> NoKey, run |-> NoRun]

ASSUME AsksAssumption == Asks \subseteq Command
ASSUME NamesAssumption == NoKey \notin Keys /\ NoRun \notin Runs
ASSUME BoundsAssumption == MaxQueue \in Nat /\ MaxLate \in Nat /\ MaxTurns \in Nat

Places == {"waiting", "falling_asleep", "asleep", "awake", "carrying",
           "ticking", "closing", "ended"}

(* The key of a command, as the set the desk would hold for it.              *)
idem(c) == {c.key} \ {NoKey}

Keyed(s) == UNION {idem(s[i]) : i \in 1 .. Len(s)}

Positions(kind, r) ==
  {i \in 1 .. Len(queue) : queue[i].kind = kind /\ queue[i].run = r}

DeskTypeOK ==
  /\ queue \in Seq(Asks)
  /\ keys \subseteq Keys
  /\ closing \in BOOLEAN
  /\ pc \in Places
  /\ carrying \in Asks \cup {Nothing}
  /\ run \in Runs \cup {NoRun}
  /\ fuel \in 0 .. MaxTurns
  /\ due \subseteq Jobs /\ agenda \subseteq Jobs /\ attempted \subseteq Jobs
  /\ owed \in 0 .. MaxQueue
  /\ late \in 0 .. MaxLate

DeskInit ==
  /\ queue = <<>> /\ keys = {}
  /\ closing = FALSE
  /\ pc = "waiting"
  /\ carrying = Nothing
  /\ run = NoRun /\ fuel = 0
  /\ due = {} /\ agenda = {} /\ attempted = {}
  /\ owed = 0 /\ late = 0

-----------------------------------------------------------------------------
(* The clients' side.                                                        *)

(* A notify wakes the thread only if it is already inside the condition      *)
(* variable; otherwise it is lost.                                           *)
Notified == IF pc = "asleep" THEN "awake" ELSE pc

dedup_ForgotAtTake(c) == idem(c) \cap Keyed(queue) # {}

(* kernel::dedup: the key is already waiting or being carried out.           *)
dedup(c) == idem(c) \cap keys # {}

(* A duplicate is dropped without a word, which changes nothing.             *)
post(c) ==
  /\ pc # "falling_asleep"                       \* the worker has the lock
  /\ Len(queue) < MaxQueue
  /\ closing => late < MaxLate
  /\ ~dedup(c)
  /\ keys' = keys \cup idem(c)
  /\ queue' = Append(queue, c)
  /\ late' = IF closing THEN late + 1 ELSE late
  /\ pc' = Notified
  /\ UNCHANGED <<closing, carrying, run, fuel, schedule, owed>>

close ==
  /\ ~closing
  /\ closing' = TRUE
  /\ owed' = Len(queue)
  /\ pc' = Notified
  /\ UNCHANGED <<desk, carrying, run, fuel, schedule, late>>

(* Time passes an entry's firing. The window of a later tick is longer, so   *)
(* an entry that is due stays due.                                           *)
Fires(j) ==
  /\ j \notin due
  /\ due' = due \cup {j}
  /\ attempted' = attempted \ {j}
  /\ UNCHANGED <<desk, closing, pc, carrying, run, fuel, agenda, owed, late>>

-----------------------------------------------------------------------------
(* CommandDesk::wait.                                                        *)

Owing(i) == IF i <= owed THEN owed - 1 ELSE owed

(* `carrying`: hand out the front of the line with the guard on its key.     *)
Carry ==
  /\ queue # <<>>
  /\ carrying' = Head(queue)
  /\ queue' = Tail(queue)
  /\ owed' = Owing(1)
  /\ fuel' = MaxTurns
  /\ pc' = "carrying"
  /\ UNCHANGED <<keys, closing, run, schedule, late>>

HearClose_First ==
  /\ closing
  /\ pc' = "closing"
  /\ UNCHANGED <<desk, closing, carrying, run, fuel, schedule, owed, late>>

HearClose ==
  /\ queue = <<>>
  /\ closing
  /\ pc' = "closing"
  /\ UNCHANGED <<desk, closing, carrying, run, fuel, schedule, owed, late>>

(* Entering wait: the line, then the flag, then sleep.                       *)
Look ==
  /\ pc = "waiting"
  /\ \/ Carry
     \/ HearClose
     \/ /\ queue = <<>> /\ ~closing
        /\ pc' = "falling_asleep"
        /\ UNCHANGED <<desk, closing, carrying, run, fuel, schedule, owed, late>>

FallAsleep ==
  /\ pc = "falling_asleep"
  /\ pc' = "asleep"
  /\ UNCHANGED <<desk, closing, carrying, run, fuel, schedule, owed, late>>


(* SCHEDULE_TICK is over, or the condition variable woke for no reason.      *)
TimeOut ==
  /\ pc = "asleep"
  /\ pc' = "awake"
  /\ UNCHANGED <<desk, closing, carrying, run, fuel, schedule, owed, late>>

(* Leaving wait_timeout: the line, then the flag, then DeskWait::Idle, which *)
(* is the tick: everything due since the last one is taken from the schedule *)
(* and last_tick moves to now.                                               *)
Wake ==
  /\ pc = "awake"
  /\ \/ Carry
     \/ HearClose
     \/ /\ queue = <<>> /\ ~closing
        /\ pc' = "ticking"
        /\ agenda' = due /\ due' = {}
        /\ fuel' = MaxTurns
        /\ UNCHANGED <<desk, closing, carrying, run, attempted, owed, late>>

-----------------------------------------------------------------------------
(* What the worker does outside the desk.                                    *)

(* A run id is fresh: it digests the job, the address and the clock, so no   *)
(* command in line can name it.                                              *)
Fresh(r) == \A i \in 1 .. Len(queue) : queue[i].run # r

(* dispatch_in for a command, and for whoever its run spoke to               *)
(* (answer_knocks).                                                          *)
Dispatch(r) ==
  /\ pc = "carrying" /\ carrying.kind = "dispatch"
  /\ run = NoRun /\ Fresh(r) /\ fuel > 0
  /\ run' = r
  /\ fuel' = fuel - 1
  /\ UNCHANGED <<desk, closing, pc, carrying, schedule, owed, late>>

(* tick dispatching one entry.                                               *)
DispatchDue(j, r) ==
  /\ pc = "ticking" /\ j \in agenda
  /\ run = NoRun /\ Fresh(r) /\ fuel > 0
  /\ run' = r
  /\ agenda' = agenda \ {j}
  /\ attempted' = attempted \cup {j}
  /\ fuel' = fuel - 1
  /\ UNCHANGED <<desk, closing, pc, carrying, due, owed, late>>

(* The `?` on a scheduled dispatch that is refused: tick returns at once,    *)
(* and the loop drops the error.                                             *)
RefuseDue(j) ==
  /\ pc = "ticking" /\ run = NoRun /\ j \in agenda
  /\ attempted' = attempted \cup {j}
  /\ agenda' = {}
  /\ pc' = "waiting"
  /\ UNCHANGED <<desk, closing, carrying, run, fuel, due, owed, late>>

TickEnds ==
  /\ pc = "ticking" /\ run = NoRun /\ agenda = {}
  /\ pc' = "waiting"
  /\ UNCHANGED <<desk, closing, carrying, run, fuel, schedule, owed, late>>

(* Waiting::forget: a command consumed as an interrupt is over, key and all. *)
forget(i) ==
  /\ queue' = RemoveAt(queue, i)
  /\ keys' = keys \ idem(queue[i])
  /\ owed' = Owing(i)

First(P) == CHOOSE i \in P : \A j \in P : i <= j

(* interrupt_for at a safe point of the run. A Cancel ends the run there; a  *)
(* Steer lands in its window, or, blank, is dropped; either way it goes on.  *)
InterruptCancel ==
  /\ Positions("cancel", run) # {}
  /\ forget(First(Positions("cancel", run)))
  /\ run' = NoRun
  /\ UNCHANGED fuel

InterruptSteer ==
  /\ Positions("cancel", run) = {}
  /\ Positions("steer", run) # {}
  /\ fuel > 0
  /\ forget(First(Positions("steer", run)))
  /\ fuel' = fuel - 1
  /\ UNCHANGED run

InterruptNone ==
  /\ Positions("cancel", run) = {}
  /\ Positions("steer", run) = {}
  /\ fuel > 0
  /\ fuel' = fuel - 1
  /\ UNCHANGED <<run, desk, owed>>

interrupt_for ==
  /\ run # NoRun
  /\ InterruptCancel \/ InterruptSteer \/ InterruptNone
  /\ UNCHANGED <<closing, pc, carrying, schedule, late>>

(* The run freezes: it is done, out of budget, or failed.                    *)
Freeze ==
  /\ run # NoRun
  /\ run' = NoRun
  /\ UNCHANGED <<desk, closing, pc, carrying, fuel, schedule, owed, late>>

(* serve_one is over - carried out, refused (a Cancel or a Steer no run      *)
(* answered to) or failed - and the Underway guard is dropped.               *)
Finish ==
  /\ pc = "carrying" /\ run = NoRun
  /\ keys' = keys \ idem(carrying)
  /\ carrying' = Nothing
  /\ pc' = "waiting"
  /\ UNCHANGED <<queue, closing, run, fuel, schedule, owed, late>>

CloseCity ==
  /\ pc = "closing"
  /\ pc' = "ended"
  /\ UNCHANGED <<desk, closing, carrying, run, fuel, schedule, owed, late>>

-----------------------------------------------------------------------------
Worker ==
  \/ Look \/ FallAsleep \/ TimeOut \/ Wake
  \/ \E r \in Runs : Dispatch(r)
  \/ \E j \in Jobs, r \in Runs : DispatchDue(j, r)
  \/ \E j \in Jobs : RefuseDue(j)
  \/ TickEnds \/ interrupt_for \/ Freeze \/ Finish \/ CloseCity

DeskNext ==
  \/ \E c \in Asks : post(c)
  \/ close
  \/ \E j \in Jobs : Fires(j)
  \/ Worker

(* The operating system runs the worker thread and ends its timed waits. No  *)
(* client is obliged to post, to stop posting, or to close.                  *)
DeskSpec == DeskInit /\ [][DeskNext]_deskVars /\ WF_deskVars(Worker)

-----------------------------------------------------------------------------
(* Properties.                                                               *)

(* The queue and the keys agree: a key is held exactly while its command is  *)
(* in line or being carried out ("Every key that is either still in `queue`  *)
(* or being carried out", Waiting::keys).                                    *)
KeysAgree == keys = Keyed(queue) \cup idem(carrying)

(* One ask is one piece of work: however often a frame is sent again, no two *)
(* commands with one key are in flight, in line or under way.                *)
OneAskOneWork ==
  /\ \A i, j \in 1 .. Len(queue) :
       i # j => idem(queue[i]) \cap idem(queue[j]) = {}
  /\ \A i \in 1 .. Len(queue) : idem(queue[i]) \cap idem(carrying) = {}

(* One key is one command: the desk's state is well formed, its keys are     *)
(* those of what it holds, and no two things it holds share one.             *)
OneKeyOneCommand == DeskTypeOK /\ KeysAgree /\ OneAskOneWork

(* Work accepted before the close is finished first: the worker hears the    *)
(* close only when nothing that stood in line at that moment is left.        *)
CloseLosesNothing == pc \in {"closing", "ended"} => owed = 0

(* Every accepted command with a key leaves the line, unless the city is     *)
(* closed first: no run, no tick and no other client can keep it there.      *)
AcceptedIsTaken ==
  \A c \in {a \in Asks : a.key # NoKey} :
    c \in Range(queue) ~> (c \notin Range(queue) \/ pc \in {"closing", "ended"})

(* A close is heard, although its notification may come between the worker's *)
(* look at the flag and its sleep, where nothing hears it.                   *)
CloseIsHeard == closing ~> pc = "ended"

(* A city nobody speaks to reads its schedule: what falls due is taken up.   *)
QuietCityTicks ==
  (<>[](queue = <<>>)) => \A j \in Jobs : j \in due ~> (j \notin due \/ closing)


(* Not kept by the code (README, section 7).                                 *)
(* "a scheduled run that cannot start is not swallowed" (RunWorker::tick):   *)
(* every entry a tick takes off the schedule is dispatched or refused.       *)
DueIsNotSwallowed ==
  [][\A j \in Jobs : j \in agenda /\ j \notin agenda' => j \in attempted']_deskVars
=============================================================================
