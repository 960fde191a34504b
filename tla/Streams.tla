------------------------------- MODULE Streams ------------------------------
(***************************************************************************)
(* One streamed answer: the frames a provider sends (external), what a      *)
(* person watching is shown of them, and the answer gateway::endpoint       *)
(* reassembles when the body has ended, in the two dialects.                *)
(*                                                                         *)
(* A block of an answer is sent in numbered pieces. Text and thinking are   *)
(* the pieces that came; a tool's arguments are JSON, which parses only     *)
(* when all of them did.                                                    *)
(***************************************************************************)
EXTENDS Naturals, Sequences, FiniteSets, SequencesExt

CONSTANTS
    Dialects,    \* a subset of {"anthropic", "openai"}
    MaxBlocks,   \* blocks of an answer
    MaxPieces,   \* pieces of a block
    MaxGarbled   \* frames that arrive unreadable

ASSUME StreamsAssumption ==
    /\ Dialects \subseteq {"anthropic", "openai"}
    /\ MaxBlocks \in Nat \ {0} /\ MaxPieces \in Nat \ {0} /\ MaxGarbled \in Nat

Counted(n) == [i \in 1..n |-> i]

\* What a provider may mean to say. A thinking block is signed; the openai
\* shape holds one text and then the calls, and no thinking.
Block == {[kind |-> k, pieces |-> Counted(n), signed |-> k = "thinking"] :
              k \in {"text", "tool", "thinking"}, n \in 1..MaxPieces}
Sayable(d, said) ==
    d = "openai" => \A i \in 1..Len(said) : said[i].kind = "tool" \/ (i = 1 /\ said[i].kind = "text")
Answers(d) == {said \in SeqOf(Block, MaxBlocks) : said # <<>> /\ Sayable(d, said)}

Frame(type, at, kind, piece) == [type |-> type, at |-> at, kind |-> kind, piece |-> piece]

VARIABLES
    dialect, saying,
    started,   \* blocks whose first frame has been sent
    sentOf,    \* pieces sent of each block
    why,       \* the reason the model stopped, once it was sent
    frames,    \* the frames that could be read, in order
    garbled,   \* how many could not
    shown,     \* increments handed to whoever watches
    outcome    \* what the call returns: a list of blocks, or <<"refused">>

streamVars == <<dialect, saying, started, sentOf, why, frames, garbled, shown, outcome>>

Waiting == <<>>
Refused == <<[kind |-> "refused", pieces |-> <<>>, signed |-> FALSE]>>
NoContent == <<[kind |-> "nothing", pieces |-> <<>>, signed |-> FALSE]>>

StreamsInit ==
    /\ dialect \in Dialects /\ saying \in Answers(dialect)
    /\ started = {} /\ sentOf = [i \in 1..Len(saying) |-> 0] /\ why = "none"
    /\ frames = <<>> /\ garbled = 0 /\ shown = <<>> /\ outcome = Waiting

-----------------------------------------------------------------------------
(* The stream *)

\* Only prose is shown while it is partial.
increment_of(f) == f.type = "delta" /\ f.kind = "text"

\* One data line. One that cannot be read is skipped.
Arrives(f) ==
    \/ /\ frames' = Append(frames, f)
       /\ shown' = IF increment_of(f) THEN Append(shown, [at |-> f.at, piece |-> f.piece]) ELSE shown
       /\ UNCHANGED garbled
    \/ /\ garbled < MaxGarbled /\ garbled' = garbled + 1
       /\ UNCHANGED <<frames, shown>>

Going == outcome = Waiting /\ why = "none"

\* content_block_start, or the chunk that names a tool call.
provider_starts(i) ==
    /\ Going /\ i \notin started
    /\ started' = started \cup {i}
    /\ Arrives(Frame("start", i, saying[i].kind, 0))
    /\ UNCHANGED <<dialect, saying, sentOf, why, outcome>>

\* A delta against a block, in whatever order the blocks come.
provider_continues(i) ==
    /\ Going /\ i \in started /\ sentOf[i] < Len(saying[i].pieces)
    /\ sentOf' = [sentOf EXCEPT ![i] = @ + 1]
    /\ Arrives(Frame("delta", i, saying[i].kind, sentOf[i] + 1))
    /\ UNCHANGED <<dialect, saying, started, why, outcome>>

AllSent == \A i \in 1..Len(saying) : i \in started /\ sentOf[i] = Len(saying[i].pieces)

\* message_delta, or the chunk with a finish reason: all was said, or the
\* model came to its limit before that.
provider_stops(reason) ==
    /\ Going /\ (reason = "end" => AllSent)
    /\ why' = reason
    /\ Arrives(Frame("stop", 0, reason, 0))
    /\ UNCHANGED <<dialect, saying, started, sentOf, outcome>>

-----------------------------------------------------------------------------
(* What was said *)

Nothing_ == [seen |-> {}, pieces |-> [i \in 1..MaxBlocks |-> <<>>], stop |-> "none"]

\* Deltas are kept by index.
Held(f, held) == f.at

Keep(held, f) ==
    IF f.type = "start" THEN [held EXCEPT !.seen = @ \cup {f.at}]
    ELSE IF f.type = "delta" THEN [held EXCEPT !.pieces[Held(f, held)] = Append(@, f.piece)]
    ELSE [held EXCEPT !.stop = f.kind]

\* What is held when these frames have been read.
Collected(read) ==
    LET upTo[n \in 0..Len(read)] == IF n = 0 THEN Nothing_ ELSE Keep(upTo[n - 1], read[n])
    IN  upTo[Len(read)]

\* The blocks at some places, by their index.
ByIndex(places) ==
    LET upTo[n \in 0..Len(saying)] ==
            IF n = 0 THEN <<>> ELSE IF n \in places THEN Append(upTo[n - 1], n) ELSE upTo[n - 1]
    IN  upTo[Len(saying)]

\* What became of one block of which pieces came: text is what came, and
\* thinking too, without the signature, which no delta is read for.
Rebuilt(i, pieces) == [kind |-> saying[i].kind, pieces |-> pieces, signed |-> FALSE]

\* anthropic::settled: blocks that were begun, in index order; arguments
\* that do not parse become none.
anthropic_settled(held) ==
    LET order == ByIndex(held.seen)
        whole(i) == held.pieces[i] = saying[i].pieces
    IN  [k \in 1..Len(order) |->
            LET i == order[k]
            IN  Rebuilt(i, IF saying[i].kind = "tool" /\ ~whole(i) THEN <<>> ELSE held.pieces[i])]

\* openai::settled and response_from: the text, if any came, then the calls
\* by index. A call never named, or whose arguments do not parse, is refused.
openai_settled(held) ==
    LET of(kind) == {i \in 1..Len(saying) : saying[i].kind = kind}
        texts == ByIndex({i \in of("text") : held.pieces[i] # <<>>})
        calls == ByIndex({i \in of("tool") : i \in held.seen \/ held.pieces[i] # <<>>})
        order == texts \o calls
    IN  IF \E k \in 1..Len(calls) : calls[k] \notin held.seen \/ held.pieces[calls[k]] # saying[calls[k]].pieces
        THEN Refused
        ELSE [k \in 1..Len(order) |-> Rebuilt(order[k], held.pieces[order[k]])]

\* Bug: the frames that came are the answer.
stream_cut_Never(held) == FALSE

\* A stream without the frame that says why the model stopped was cut.
stream_cut(held) == held.stop = "none"

settled_from_stream ==
    LET held == Collected(frames)
        said == IF dialect = "anthropic" THEN anthropic_settled(held) ELSE openai_settled(held)
    IN  IF stream_cut(held) THEN Refused ELSE IF said = <<>> THEN NoContent ELSE said

\* Endpoint::stream: the body has ended, whole or not.
stream ==
    /\ outcome = Waiting
    /\ outcome' = settled_from_stream
    /\ UNCHANGED <<dialect, saying, started, sentOf, why, frames, garbled, shown>>

StreamsNext ==
    \/ \E i \in 1..Len(saying) : provider_starts(i) \/ provider_continues(i)
    \/ \E r \in {"end", "limit"} : provider_stops(r)
    \/ stream

-----------------------------------------------------------------------------
(* Properties *)

Answered == outcome \notin {Waiting, Refused}
Unsigned(said) == [i \in 1..Len(said) |-> [said[i] EXCEPT !.signed = FALSE]]

\* "A partial reply presented as a whole one is the one outcome this must
\* not have": of a stream whose frames could all be read, wherever it broke
\* off and however its blocks were interleaved, an answer that says the model
\* had finished holds every block, in place and whole, but for signatures
\* (settled_from_stream).
WholeOrRefused ==
    Answered /\ garbled = 0 /\ why # "limit" => Unsigned(outcome) = Unsigned(saying)

\* Of an answer that ran into its limit, every block is one that was meant,
\* in its order, as far as it came; a call's arguments are whole or none:
\* half an argument is never a shorter one.
LimitedIsPrefix ==
    Answered /\ garbled = 0 /\ outcome # NoContent =>
        \E at \in [1..Len(outcome) -> 1..Len(saying)] :
            /\ \A j, k \in 1..Len(outcome) : j < k => at[j] < at[k]
            /\ \A k \in 1..Len(outcome) :
                  /\ outcome[k].kind = saying[at[k]].kind
                  /\ IsPrefix(outcome[k].pieces, saying[at[k]].pieces)
                  /\ outcome[k].kind = "tool" => outcome[k].pieces \in {<<>>, saying[at[k]].pieces}

\* What is shown while it comes is prose, and of each text what was sent of
\* it, in its order, less what could not be read (increment_of).
ShownIsProse ==
    /\ \A k \in 1..Len(shown) : saying[shown[k].at].kind = "text"
    /\ \A j, k \in 1..Len(shown) : j < k /\ shown[j].at = shown[k].at => shown[j].piece < shown[k].piece

\* No part of a reply passes for the whole, in the answer or on the screen.
RepliesAreWhole == WholeOrRefused /\ LimitedIsPrefix /\ ShownIsProse

\* Not kept by the code (README, section 7).
\* A streamed answer and a blocking one say the same, signatures included.
StreamedIsWhatWasSaid == Answered /\ garbled = 0 /\ why # "limit" => outcome = saying
=============================================================================
