----------------------------- MODULE RunDriver -----------------------------
(* One run, from its dispatch to its freeze (runtime::run, runtime::turn,    *)
(* runtime::window, and the hooks crates/sprawling/src/assembly/driving.rs   *)
(* gives them), with the startup scan that follows a death in the middle.    *)
(*                                                                           *)
(* A turn has four phases. Before each is a safe point, where a Cancel ends  *)
(* the run and a Steer joins the window. Every line is an append of its own, *)
(* so the process can die, or the ledger refuse, between any two of them and *)
(* between a tool's effect and the line that reports it.                     *)
EXTENDS Naturals, Sequences, SequencesExt, FiniteSets

CONSTANTS Budget,     \* RunPlan::budget_turns
          MaxCalls,   \* bound: tool calls in one wave
          MaxSteers,  \* bound: steers the run receives
          Faults      \* of "provider", "storage", "crash"

ASSUME BudgetAssumption == Budget \in Nat /\ MaxCalls \in Nat /\ MaxSteers \in Nat
ASSUME FaultsAssumption == Faults \subseteq {"provider", "storage", "crash"}

Places == {"pin", "start", "loop", "assemble", "before_call", "call", "provider",
           "fence", "before_wave", "execute", "invoke", "result", "before_spawn",
           "record", "carry", "handoff", "freeze", "frozen", "concluded",
           "fatal", "dead"}

Kinds == {"job_pinned", "run_started", "steer_received", "cancel_received",
          "prompt_assembled", "model_called", "model_returned",
          "checkpoint_committed", "tool_called", "tool_result",
          "provider_degraded", "handoff_written", "run_frozen"}

Block == [is : {"task", "say", "steer", "use", "answer"}, of : Nat]

VARIABLES ledger,    \* the run's lines, in order
          pc,        \* which step of the drive is next
          turns,     \* Active::turns
          window,    \* Active::window
          chat,      \* the request assembled for this turn
          wave,      \* calls of this turn still to be made
          calls,     \* calls of this turn
          assistant, \* what the model said this turn
          results,   \* Recording::wave_results
          effects,   \* calls whose tool has acted
          delegates, \* work the run asked to hand down
          handed,    \* work handed down
          ending,    \* Completion
          steers, minted

turn == <<wave, calls, assistant, results>>
vars == <<ledger, pc, turns, window, chat, wave, calls, assistant, results,
          effects, delegates, handed, ending, steers, minted>>

TypeOK ==
  /\ ledger \in Seq([kind : Kinds, of : Nat])
  /\ pc \in Places
  /\ turns \in 0 .. Budget
  /\ window \in Seq([role : {"user", "assistant"}, content : Seq(Block)])
  /\ chat \in Seq([role : {"user", "assistant"}, content : Seq(Block)])
  /\ wave \in Seq(Nat) /\ calls \in Seq(Nat)
  /\ assistant \in Seq(Block) /\ results \in Seq(Block)
  /\ effects \subseteq 1 .. minted /\ delegates \subseteq effects
  /\ handed \subseteq delegates
  /\ ending \in {"limit", "done", "cancelled"}
  /\ steers \in 0 .. MaxSteers
  /\ minted \in 0 .. Budget * MaxCalls

-----------------------------------------------------------------------------
(* runtime::window. User content joins the message already open.             *)

push_user_Opens(w, content) == Append(w, [role |-> "user", content |-> content])

push_user(w, content) ==
  IF w # <<>> /\ Last(w).role = "user"
    THEN [w EXCEPT ![Len(w)].content = @ \o content]
    ELSE Append(w, [role |-> "user", content |-> content])

push_steer(w, n) == push_user(w, <<[is |-> "steer", of |-> n]>>)

push_assistant(w, content) ==
  IF content = <<>> THEN w ELSE Append(w, [role |-> "assistant", content |-> content])

push_tool_results(w, r) == IF r = <<>> THEN w ELSE push_user(w, r)

Line(kind, n) == Append(ledger, [kind |-> kind, of |-> n])

Init ==
  /\ ledger = <<>> /\ pc = "pin" /\ turns = 0
  /\ window = <<>> /\ chat = <<>>
  /\ wave = <<>> /\ calls = <<>> /\ assistant = <<>> /\ results = <<>>
  /\ effects = {} /\ delegates = {} /\ handed = {}
  /\ ending = "limit" /\ steers = 0 /\ minted = 0

-----------------------------------------------------------------------------
(* Run::dispatch.                                                            *)

Pin ==
  /\ pc = "pin"
  /\ ledger' = Line("job_pinned", 0)
  /\ pc' = "start"
  /\ UNCHANGED <<turns, window, chat, turn, effects, delegates, handed, ending, steers, minted>>

Started ==
  /\ pc = "start"
  /\ ledger' = Line("run_started", 0)
  /\ window' = push_user(window, <<[is |-> "task", of |-> 0]>>)
  /\ pc' = "loop"
  /\ UNCHANGED <<turns, chat, turn, effects, delegates, handed, ending, steers, minted>>

(* The loop of drive.                                                        *)
Within == turns < Budget

(* The budget is spent, and the run freezes as limited.                      *)
Spent ==
  /\ pc = "loop" /\ ~Within
  /\ pc' = "handoff"
  /\ UNCHANGED <<ledger, turns, window, chat, turn, effects, delegates, handed,
                 ending, steers, minted>>

-----------------------------------------------------------------------------
(* The safe points of Run::advance: fold_steer, then consume_boundary.       *)

Boundary == [loop |-> "assemble", before_call |-> "call",
             before_wave |-> "execute", before_spawn |-> "record"]

AtBoundary == pc \in DOMAIN Boundary /\ (pc = "loop" => Within)

Undisturbed ==
  /\ AtBoundary
  /\ pc' = Boundary[pc]
  /\ UNCHANGED <<ledger, turns, window, chat, turn, effects, delegates, handed,
                 ending, steers, minted>>

Steered ==
  /\ AtBoundary /\ steers < MaxSteers
  /\ steers' = steers + 1
  /\ window' = push_steer(window, steers + 1)
  /\ ledger' = Line("steer_received", steers + 1)
  /\ pc' = Boundary[pc]
  /\ UNCHANGED <<turns, chat, turn, effects, delegates, handed, ending, minted>>

Cancelled ==
  /\ AtBoundary
  /\ ledger' = Line("cancel_received", 0)
  /\ ending' = "cancelled"
  /\ pc' = "handoff"
  /\ UNCHANGED <<turns, window, chat, turn, effects, delegates, handed, steers, minted>>

-----------------------------------------------------------------------------
(* The phases of a turn.                                                     *)

assemble ==
  /\ pc = "assemble"
  /\ ledger' = Line("prompt_assembled", 0)
  /\ chat' = window
  /\ pc' = "before_call"
  /\ UNCHANGED <<turns, window, turn, effects, delegates, handed, ending, steers, minted>>

call ==
  /\ pc = "call"
  /\ ledger' = Line("model_called", 0)
  /\ pc' = "provider"
  /\ UNCHANGED <<turns, window, chat, turn, effects, delegates, handed, ending, steers, minted>>

(* The provider answers, with or without words and with n tool calls.        *)
Returned(n, says) ==
  /\ pc = "provider"
  /\ ledger' = Line("model_returned", n)
  /\ LET ids == [i \in 1 .. n |-> minted + i]
         uses == [i \in 1 .. n |-> [is |-> "use", of |-> minted + i]]
         words == IF says THEN <<[is |-> "say", of |-> 0]>> ELSE <<>>
     IN  /\ wave' = ids /\ calls' = ids
         /\ assistant' = words \o uses
  /\ results' = <<>>
  /\ minted' = minted + n
  /\ pc' = "fence"
  /\ UNCHANGED <<turns, window, chat, effects, delegates, handed, ending, steers>>

(* An error whose code has a carrier event goes to drive's arm. The kind of  *)
(* that event is the code's to say; provider_degraded stands for all of them.*)
ProviderFails ==
  /\ pc = "provider" /\ "provider" \in Faults
  /\ pc' = "carry"
  /\ UNCHANGED <<ledger, turns, window, chat, turn, effects, delegates, handed,
                 ending, steers, minted>>

(* The pre-wave fence: the tree is committed before anything acts on it.     *)
fence ==
  /\ pc = "fence"
  /\ ledger' = Line("checkpoint_committed", 0)
  /\ pc' = "before_wave"
  /\ UNCHANGED <<turns, window, chat, turn, effects, delegates, handed, ending, steers, minted>>

execute ==
  /\ pc = "execute"
  /\ \/ /\ wave # <<>>
        /\ ledger' = Line("tool_called", Head(wave))
        /\ pc' = "invoke"
     \/ /\ wave = <<>>
        /\ pc' = "before_spawn"
        /\ UNCHANGED ledger
  /\ UNCHANGED <<turns, window, chat, turn, effects, delegates, handed, ending, steers, minted>>

(* The bench lets the tool act, hand work down among other things, or it     *)
(* refuses, parks the call for a person or fails: each is the call's result. *)
Invoke(verdict) ==
  /\ pc = "invoke"
  /\ effects' = IF verdict = "stopped" THEN effects ELSE effects \cup {Head(wave)}
  /\ delegates' = IF verdict = "handed" THEN delegates \cup {Head(wave)} ELSE delegates
  /\ results' = Append(results, [is |-> "answer", of |-> Head(wave)])
  /\ pc' = "result"
  /\ UNCHANGED <<ledger, turns, window, chat, wave, calls, assistant, handed,
                 ending, steers, minted>>

Result ==
  /\ pc = "result"
  /\ ledger' = Line("tool_result", Head(wave))
  /\ wave' = Tail(wave)
  /\ pc' = "execute"
  /\ UNCHANGED <<turns, window, chat, calls, assistant, results, effects, delegates,
                 handed, ending, steers, minted>>

(* Recording, and the end of advance: a turn that called nothing concludes.  *)
record ==
  /\ pc = "record"
  /\ turns' = turns + 1
  /\ window' = push_tool_results(push_assistant(window, assistant), results)
  /\ \/ calls = <<>> /\ ending' = "done" /\ pc' = "handoff"
     \/ calls # <<>> /\ pc' = "loop" /\ UNCHANGED ending
  /\ UNCHANGED <<ledger, chat, turn, effects, delegates, handed, steers, minted>>

-----------------------------------------------------------------------------
(* Endings.                                                                  *)

carry_Propagates ==
  /\ pc = "carry"
  /\ pc' = "concluded"
  /\ UNCHANGED <<ledger, turns, window, chat, turn, effects, delegates, handed,
                 ending, steers, minted>>

(* A failure with a carrier is written down and the run freezes cancelled.   *)
carry ==
  /\ pc = "carry"
  /\ ledger' = Line("provider_degraded", 0)
  /\ ending' = "cancelled"
  /\ pc' = "handoff"
  /\ UNCHANGED <<turns, window, chat, turn, effects, delegates, handed, steers, minted>>

Handoff ==
  /\ pc = "handoff"
  /\ ledger' = Line("handoff_written", 0)
  /\ pc' = "freeze"
  /\ UNCHANGED <<turns, window, chat, turn, effects, delegates, handed, ending, steers, minted>>

freeze ==
  /\ pc = "freeze"
  /\ ledger' = Line("run_frozen", 0)
  /\ pc' = "frozen"
  /\ UNCHANGED <<turns, window, chat, turn, effects, delegates, handed, ending, steers, minted>>

conclude_Always ==
  /\ pc = "frozen"
  /\ handed' = delegates
  /\ pc' = "concluded"
  /\ UNCHANGED <<ledger, turns, window, chat, turn, effects, delegates, ending, steers, minted>>

(* conclude: a cancelled run hands nothing down.                             *)
conclude ==
  /\ pc = "frozen"
  /\ handed' = IF ending = "cancelled" THEN {} ELSE delegates
  /\ pc' = "concluded"
  /\ UNCHANGED <<ledger, turns, window, chat, turn, effects, delegates, ending, steers, minted>>

(* The ledger or the fence's repository refuses: a loadtime code, which      *)
(* drive propagates without writing anything more.                           *)
Appending == pc \in {"pin", "start", "assemble", "call", "provider", "fence",
                     "result", "carry", "handoff", "freeze"}
             \/ (pc = "execute" /\ wave # <<>>)
             \/ AtBoundary

StorageFails ==
  /\ "storage" \in Faults /\ Appending
  /\ pc' = "fatal"
  /\ UNCHANGED <<ledger, turns, window, chat, turn, effects, delegates, handed,
                 ending, steers, minted>>

(* The process dies; what it had done, and what it had written, stands.      *)
Crash ==
  /\ "crash" \in Faults /\ pc \notin {"concluded", "fatal", "dead"}
  /\ pc' = "dead"
  /\ window' = <<>> /\ chat' = <<>>
  /\ wave' = <<>> /\ calls' = <<>> /\ assistant' = <<>> /\ results' = <<>>
  /\ UNCHANGED <<ledger, turns, effects, delegates, handed, ending, steers, minted>>

dangling_tool_calls_AnyResult ==
  {i \in 1 .. Len(ledger) : ledger[i].kind = "tool_called"
     /\ \A j \in 1 .. Len(ledger) : ledger[j].kind # "tool_result"}

(* replay::dangling_tool_calls, of one run.                                  *)
dangling_tool_calls ==
  {i \in 1 .. Len(ledger) : ledger[i].kind = "tool_called"
     /\ \A j \in i + 1 .. Len(ledger) : ledger[j].kind # "tool_result"}

(* startup_scan: each unknown outcome is closed by a line that says so.      *)
startup_scan ==
  /\ pc \in {"dead", "fatal"}
  /\ \E i \in dangling_tool_calls : ledger' = Line("tool_result", ledger[i].of)
  /\ UNCHANGED <<pc, turns, window, chat, turn, effects, delegates, handed,
                 ending, steers, minted>>

Next ==
  \/ Pin \/ Started \/ Spent
  \/ Undisturbed \/ Steered \/ Cancelled
  \/ assemble \/ call
  \/ \E n \in 0 .. MaxCalls, says \in BOOLEAN : Returned(n, says)
  \/ ProviderFails \/ fence \/ execute
  \/ \E v \in {"acted", "handed", "stopped"} : Invoke(v)
  \/ Result \/ record
  \/ carry \/ Handoff \/ freeze \/ conclude
  \/ StorageFails \/ Crash \/ startup_scan

Spec == Init /\ [][Next]_vars /\ WF_vars(Next)

-----------------------------------------------------------------------------
(* Properties.                                                               *)

Lines(kind) == {i \in 1 .. Len(ledger) : ledger[i].kind = kind}

Wrote(kind) == Lines(kind) # {}

SteersIn(w) ==
  UNION {{b.of : b \in {m \in Range(w[i].content) : m.is = "steer"}} : i \in 1 .. Len(w)}

Of(message, is) == {b.of : b \in {m \in Range(message.content) : m.is = is}}

(* What is on the wire is what a provider takes: roles alternate from the    *)
(* user's, and every tool call of an assistant message is answered in the    *)
(* very next message, whatever was steered, refused or parked in between     *)
(* ("none of them can produce the alternating shape a provider refuses",     *)
(* runtime::window).                                                         *)
RequestIsWellFormed ==
  \A i \in 1 .. Len(chat) :
    /\ chat[i].role = IF i % 2 = 1 THEN "user" ELSE "assistant"
    /\ chat[i].role = "assistant" => i < Len(chat)
    /\ i > 1 => Of(chat[i], "answer") = Of(chat[i - 1], "use")

(* The request holds exactly the steers recorded before it was assembled: a  *)
(* reader of the ledger can say what the model was told, and a steer never   *)
(* rewrites a request already on the wire (fold_steer).                      *)
ReadsWhatTheLedgerSays ==
  pc = "provider" =>
    SteersIn(chat) = {ledger[i].of : i \in
      {k \in Lines("steer_received") : \E j \in Lines("prompt_assembled") : k < j}}

(* A cancel that was heard ends the run there: after its line there is no    *)
(* call, no effect and no other line than the handoff and the freeze.        *)
CancelEndsIt ==
  \A i \in Lines("cancel_received"), j \in 1 .. Len(ledger) :
    j > i => ledger[j].kind \in {"handoff_written", "run_frozen"}

(* Work asked for by a turn somebody cancelled is not started (the fourth    *)
(* safe point, SafePoint::BeforeSpawn).                                      *)
CancelledHandsNothingDown ==
  Wrote("cancel_received") \/ Wrote("provider_degraded") => handed = {}

(* A run always ends: unless storage failed or the process died, a drive     *)
(* that is over left a handoff and then, as the run's last line, the freeze  *)
(* ("before this arm existed, a 401 from a provider left a run permanently   *)
(* `started'", drive).                                                       *)
StartedIsFrozen ==
  pc = "concluded" => /\ Len(ledger) > 1
                      /\ Last(ledger).kind = "run_frozen"
                      /\ ledger[Len(ledger) - 1].kind = "handoff_written"

(* Nothing acts on the tree before the turn's fence: every tool call follows *)
(* a checkpoint of its own turn, so what it deletes can come back.           *)
FencedBeforeEffect ==
  \A i \in Lines("tool_called") :
    \E j \in Lines("checkpoint_committed") :
      j < i /\ \A k \in Lines("model_returned") : k < j \/ k > i

(* Every effect of a tool is accounted for: its call is on the ledger, and   *)
(* once the drive is over, by its own end or by a scan that found nothing    *)
(* left to close, exactly one result answers it - also when the process died *)
(* between the effect and its line (startup_scan).                           *)
EffectsAreAccounted ==
  /\ \A e \in effects : \E i \in Lines("tool_called") : ledger[i].of = e
  /\ (pc = "concluded" \/ (pc \in {"dead", "fatal"} /\ dangling_tool_calls = {})) =>
       \A i \in Lines("tool_called") :
         Cardinality({j \in Lines("tool_result") : ledger[j].of = ledger[i].of}) = 1

(* What a provider is sent has the shape it takes, and says what the ledger  *)
(* says was told to the model.                                               *)
RequestIsFaithful == TypeOK /\ RequestIsWellFormed /\ ReadsWhatTheLedgerSays

(* A cancel is the last thing that happens to a run: nothing is called,      *)
(* done or handed down after it.                                             *)
CancelIsFinal == CancelEndsIt /\ CancelledHandsNothingDown

(* Every effect can be undone and is known: it follows a fence of its turn,  *)
(* stands on the ledger, and is answered once, through the death of the      *)
(* process.                                                                  *)
EffectsAreKnown == FencedBeforeEffect /\ EffectsAreAccounted
=============================================================================
