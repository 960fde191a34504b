----------------------------- MODULE Knocking -----------------------------
(* How residents set each other going (crates/sprawling/src/assembly/        *)
(* waking.rs, with the parts of dispatching.rs, settling.rs and              *)
(* commanding.rs it runs inside).                                            *)
(*                                                                           *)
(* One worker thread carries out one dispatch at a time. A run that signals  *)
(* a resident leaves a knock; the runs the knocks start are driven by the    *)
(* same thread before it goes back to the desk, wave after wave, for as long *)
(* as the runs go on speaking to each other. What the person asks for in the *)
(* meantime waits at the desk.                                               *)
EXTENDS Naturals, Sequences, SequencesExt

CONSTANTS Rooms,       \* the rooms of one building
          Building,    \* the building, as an address of its own
          NewRoom,     \* the room a session opens: whichever name is not taken
          Nowhere,
          Residents,   \* rooms with an URBANITE.md: the ones that can be woken
          Entrances,   \* which of "dispatch" and "tick" the city is used with
          MayFail,     \* whether a drive may end in an error
          MaxSpoken    \* bound: residents one run speaks to

ASSUME RoomsAssumption ==
  /\ Residents \subseteq Rooms
  /\ {Building, NewRoom, Nowhere} \cap Rooms = {} /\ NewRoom # Building
ASSUME UseAssumption ==
  Entrances \subseteq {"dispatch", "tick"} /\ MayFail \in BOOLEAN /\ MaxSpoken \in Nat

VARIABLES pc,       \* "idle" at the desk, "running", "handing", "answering"
          at,       \* the room of the run being driven
          source,   \* what the dispatch under way came from
          handed,   \* rooms the run handed work to, still to be dispatched
          child,    \* whether the run being driven was handed its work
          knocks,   \* RunWorker::knocks
          wave,     \* the knocks taken by answer_knocks, still to be answered
          called,   \* history: residents signalled and not dispatched since
          halted,   \* Governance::halted
          waiting   \* scopes whose Halt stands at the desk

knockVars == <<pc, at, source, handed, child, knocks, wave, called, halted, waiting>>

(* What can be halted here, and where work can be sent.                      *)
Scopes == Rooms \cup {Building}

KnockTypeOK ==
  /\ pc \in {"idle", "running", "handing", "answering"}
  /\ at \in Rooms \cup {NewRoom, Nowhere}
  /\ source \in {"dispatch", "tick", "knock"}
  /\ handed \in Seq(Rooms) /\ child \in BOOLEAN
  /\ knocks \in Seq(Residents) /\ wave \in Seq(Residents)
  /\ called \subseteq Residents
  /\ halted \subseteq Scopes /\ waiting \subseteq Scopes

KnockingInit ==
  /\ pc = "idle" /\ at = Nowhere /\ source = "dispatch"
  /\ handed = <<>> /\ child = FALSE
  /\ knocks = <<>> /\ wave = <<>>
  /\ called = {} /\ halted = {} /\ waiting = {}

-----------------------------------------------------------------------------
(* The person's side.                                                        *)

AskHalt(s) ==
  /\ s \notin waiting /\ s \notin halted
  /\ waiting' = waiting \cup {s}
  /\ UNCHANGED <<pc, at, source, handed, child, knocks, wave, called, halted>>

(* set_admission, when the worker is at the desk.                            *)
Halt(s) ==
  /\ pc = "idle" /\ s \in waiting
  /\ halted' = halted \cup {s}
  /\ waiting' = waiting \ {s}
  /\ UNCHANGED <<pc, at, source, handed, child, knocks, wave, called>>

Release(s) ==
  /\ pc = "idle" /\ waiting = {} /\ s \in halted
  /\ halted' = halted \ {s}
  /\ UNCHANGED <<pc, at, source, handed, child, knocks, wave, called, waiting>>

-----------------------------------------------------------------------------
(* Driving.                                                                  *)

(* halted_by: a scope covers itself and what lies inside it.                 *)
halted_by(addr) == addr \in halted \/ Building \in halted

(* Whether the city takes work at this address now: the address as it was    *)
(* sent, whatever room the work then moves to.                               *)
agree_to_work(addr) == ~halted_by(addr)

(* Where work sent to this address is done: work for a building opens a room *)
(* for its session, under a name no room has.                                *)
room_for(addr) == IF addr = Building THEN NewRoom ELSE addr

(* A run is started for work sent to addr. It reads what was waiting in its  *)
(* room.                                                                     *)
Start(addr, by, isChild) ==
  /\ agree_to_work(addr)
  /\ pc' = "running" /\ at' = room_for(addr)
  /\ source' = by /\ child' = isChild
  /\ called' = called \ {room_for(addr)}

(* A dispatch the person sent, or the tick of the schedule. The desk keeps   *)
(* arrival order and the tick waits for an empty desk, so neither overtakes  *)
(* a Halt in line. A refused one changes nothing.                            *)
Dispatch(addr, by) ==
  /\ pc = "idle" /\ waiting = {}
  /\ Start(addr, by, FALSE)
  /\ UNCHANGED <<handed, knocks, wave, halted, waiting>>

(* RunWorker::knock for one signal.                                          *)
Knocked(k, speaker, room) ==
  IF room = speaker \/ room \in Range(k) \/ room \notin Residents
    THEN k ELSE Append(k, room)

(* settle: each signal is delivered and knocks, in the order sent.           *)
Settled(spoken) ==
  LET upTo[n \in 0 .. Len(spoken)] ==
        IF n = 0 THEN knocks ELSE Knocked(upTo[n - 1], at, spoken[n])
  IN  upTo[Len(spoken)]

(* Where the thread goes when a dispatch is over. An error leaves            *)
(* run_command and wake before answer_knocks; in answer_knocks itself it is  *)
(* noted and stepped over; tick never answers knocks.                        *)
After(ok) ==
  IF source = "knock" \/ (source = "dispatch" /\ ok) THEN "answering" ELSE "idle"

(* The drive is over: desks are settled whether it failed or not, then the   *)
(* work it handed down is dispatched, unless it failed or is itself a child. *)
RunEnds(spoken, hand, ok) ==
  /\ pc = "running"
  /\ ~ok => MayFail
  /\ (~ok \/ child) => hand = <<>>
  /\ knocks' = Settled(spoken)
  /\ called' = called \cup ((Range(spoken) \cap Residents) \ {at})
  /\ LET rest == IF ~ok THEN <<>> ELSE IF child THEN handed ELSE hand IN
       /\ handed' = rest
       /\ pc' = IF rest # <<>> THEN "handing" ELSE After(ok)
  /\ at' = Nowhere /\ child' = FALSE
  /\ UNCHANGED <<source, wave, halted, waiting>>

(* conclude: one piece of work handed down. A refusal ends the dispatch.     *)
HandDown ==
  /\ pc = "handing"
  /\ \/ /\ Start(Head(handed), source, TRUE)
        /\ handed' = Tail(handed)
     \/ /\ ~agree_to_work(Head(handed))
        /\ handed' = <<>>
        /\ pc' = After(FALSE)
        /\ UNCHANGED <<at, source, child, called>>
  /\ UNCHANGED <<knocks, wave, halted, waiting>>

-----------------------------------------------------------------------------
(* answer_knocks.                                                            *)

TakeWave ==
  /\ pc = "answering" /\ wave = <<>> /\ knocks # <<>>
  /\ wave' = knocks /\ knocks' = <<>>
  /\ UNCHANGED <<pc, at, source, handed, child, called, halted, waiting>>

Answer_Newest ==
  /\ pc = "answering" /\ wave # <<>>
  /\ \/ /\ Start(Last(wave), "knock", FALSE)
        /\ wave' = Front(wave) \o knocks
        /\ knocks' = <<>>
        /\ UNCHANGED <<handed, halted, waiting>>
     \/ /\ ~agree_to_work(Last(wave))
        /\ wave' = Front(wave)
        /\ called' = called \ {Last(wave)}
        /\ UNCHANGED <<pc, at, source, handed, child, knocks, halted, waiting>>

(* The next knock of the wave starts a run, or cannot and is stepped over.   *)
Answer ==
  /\ pc = "answering" /\ wave # <<>>
  /\ \/ /\ Start(Head(wave), "knock", FALSE)
        /\ wave' = Tail(wave)
        /\ UNCHANGED <<handed, knocks, halted, waiting>>
     \/ /\ ~agree_to_work(Head(wave))
        /\ wave' = Tail(wave)
        /\ called' = called \ {Head(wave)}
        /\ UNCHANGED <<pc, at, source, handed, child, knocks, halted, waiting>>

Answered ==
  /\ pc = "answering" /\ wave = <<>> /\ knocks = <<>>
  /\ pc' = "idle"
  /\ UNCHANGED <<at, source, handed, child, knocks, wave, called, halted, waiting>>

-----------------------------------------------------------------------------
Spoken == UNION {[1 .. n -> Rooms] : n \in 0 .. MaxSpoken}

Handings == {<<>>} \cup {<<r>> : r \in Rooms}

Worker ==
  \/ \E s \in Scopes : Halt(s)
  \/ \E s \in Spoken, h \in Handings, ok \in BOOLEAN : RunEnds(s, h, ok)
  \/ HandDown \/ TakeWave \/ Answer \/ Answered

KnockingNext ==
  \/ Worker
  \/ \E s \in Scopes : AskHalt(s) \/ Release(s)
  \/ \E addr \in Scopes, by \in Entrances : Dispatch(addr, by)

(* The worker thread keeps going, and every run ends: it has a turn budget.  *)
(* Nothing obliges the person, and nothing stops residents from speaking.    *)
KnockingSpec == KnockingInit /\ [][KnockingNext]_knockVars /\ WF_knockVars(Worker)

-----------------------------------------------------------------------------
(* Properties.                                                               *)

(* However many signals a run sends a resident, one run answers them: no     *)
(* resident stands twice among the knocks of a wave (RunWorker::knock).      *)
OneKnockEach == IsInjective(knocks) /\ IsInjective(wave)

(* Once answer_knocks is entered, every resident knocked for is dispatched,  *)
(* or refused because it is halted, even when the others never stop talking  *)
(* ("drained in waves", answer_knocks).                                      *)
KnockIsAnswered ==
  \A r \in Residents :
    (pc = "answering" /\ r \in Range(knocks \o wave)) ~> r \notin called

(* Not kept by the code (README, section 7).                                 *)
(* "A person who wants a resident to stop being reachable halts it"          *)
(* (RunWorker::knock): a Halt that stands at the desk is carried out in the  *)
(* end, although nothing counts the knocks that are answered before it.      *)
HaltIsHeard == \A s \in Scopes : s \in waiting ~> s \in halted
=============================================================================
