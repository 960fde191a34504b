------------------------------- MODULE Bundles -------------------------------
(***************************************************************************)
(* Carrying a city to another machine: memory::bundle, as the commands      *)
(* export and restore call it.                                              *)
(*                                                                         *)
(* Nothing stops the city while it is exported, either command may stop     *)
(* half way, inside a file too, and what was written may be carried short.  *)
(* The city's ledger is a sequence of segments of lines; a line is the      *)
(* object it names (put before the line that names it) or Half while it is  *)
(* being written. A copied ledger is a directory: the files that are there, *)
(* each with its lines, under the numbers of the segments.                  *)
(***************************************************************************)
EXTENDS Integers, Sequences, SequencesExt

CONSTANTS
    MaxCityLines,   \* lines the city writes
    MaxSegments,    \* segments they fill
    MaxStops        \* commands stopped half way, and files lost on the way

ASSUME BundlesAssumption ==
    MaxCityLines \in Nat /\ MaxSegments \in Nat \ {0} /\ MaxStops \in Nat

Half == 0
Nothing == [lines |-> -1, head |-> -1]      \* no manifest that can be read
NoFiles == [i \in {} |-> <<>>]

VARIABLES
    city,       \* the segments of the city's ledger
    objects,    \* the objects of its store
    bundle,     \* [ledger, objects, spoilt, manifest]
    root,       \* the directory restored into: [ledger, objects, spoilt]
    task,       \* what the command under way does next
    todo,       \* the files of that tree it listed and has not copied
    answer,     \* what the last restore answered
    stops,
    vouched     \* history: the manifests exports have written

\* spoilt is history: the objects whose file a stopped export was replacing, or
\* the carrying lost, and no export has copied since; for the directory, those
\* of the bundle it is restored from.
bundleVars == <<city, objects, bundle, root, task, todo, answer, stops, vouched>>

\* A ledger some other city left in the directory: lines that name no object
\* of this one.
Foreign == [i \in 1..MaxSegments |-> <<-1>>]

BundlesInit ==
    /\ city = << <<>> >> /\ objects = {}
    /\ bundle = [ledger |-> NoFiles, objects |-> {}, spoilt |-> {}, manifest |-> Nothing]
    /\ root \in {[ledger |-> l, objects |-> {}, spoilt |-> {}] : l \in {NoFiles, Foreign}}
    /\ task = "none" /\ todo = {} /\ answer = "none" /\ stops = 0 /\ vouched = {}

Lines(ledger) == FlattenSeq(ledger)

\* The lines of a directory's files, in the order of their names.
read_lines(dir) ==
    Lines([i \in 1..MaxSegments |-> IF i \in DOMAIN dir THEN dir[i] ELSE <<>>])

-----------------------------------------------------------------------------
(* The city goes on *)

Open == city[Len(city)]

Idle == IF Open = <<>> THEN TRUE ELSE Last(Open) # Half

\* An object is put, and the line that names it is begun.
Work ==
    /\ Idle /\ Len(Lines(city)) < MaxCityLines
    /\ objects' = objects \cup {Len(Lines(city)) + 1}
    /\ city' = [city EXCEPT ![Len(city)] = Append(@, Half)]
    /\ UNCHANGED <<bundle, root, task, todo, answer, stops, vouched>>

\* The line is whole.
Written ==
    /\ ~Idle
    /\ city' = [city EXCEPT ![Len(city)] = [@ EXCEPT ![Len(@)] = Len(Lines(city))]]
    /\ UNCHANGED <<objects, bundle, root, task, todo, answer, stops, vouched>>

Roll ==
    /\ Idle /\ Open # <<>> /\ Len(city) < MaxSegments
    /\ city' = Append(city, <<>>)
    /\ UNCHANGED <<objects, bundle, root, task, todo, answer, stops, vouched>>

-----------------------------------------------------------------------------
(* walk, write_file, head_of, count_records *)

\* A file of the tree replaces the one that was there: read, the old one
\* removed, the new one written. The step is a whole file's because nothing
\* reads a copy while it is made; a stop inside it is Stop's.
WriteFile(dir, i, file) == [j \in DOMAIN dir \cup {i} |-> IF j = i THEN file ELSE dir[j]]

RemoveFile(dir, i) == [j \in DOMAIN dir \ {i} |-> dir[j]]

\* What a write stopped half way leaves of a file's lines.
Fragments(file) ==
    {SubSeq(file, 1, n) : n \in 0..Len(file)}
        \cup {Append(SubSeq(file, 1, n), Half) : n \in 0..(Len(file) - 1)}

\* The old file gone and the new one not there, or not all of it.
HalfReplaced(dir, i, file) ==
    {RemoveFile(dir, i)} \cup {WriteFile(dir, i, piece) : piece \in Fragments(file)}

\* The lines parse and each continues the one before.
Verifies(lines) == \A i \in 1..Len(lines) : lines[i] = i

\* What is counted and what the last line hashes to.
ManifestOf(lines) ==
    [lines |-> Len(lines), head |-> IF lines = <<>> THEN 0 ELSE Last(lines)]

-----------------------------------------------------------------------------
(* copy_tree, for Bundle::export_with and Bundle::restore_with *)

\* Bug: the store is copied before the history that names what is in it.
ExportOrder_StoreFirst == <<"export objects", "export ledger", "export manifest">>

\* The history, then the store, then the manifest over what was copied.
ExportOrder == <<"export ledger", "export objects", "export manifest">>

RestoreOrder == <<"restore ledger", "restore objects", "restore walk">>

After(t) ==
    LET steps == ExportOrder \o RestoreOrder
        i == CHOOSE j \in 1..6 : steps[j] = t
    IN  steps[i + 1]

\* The files of the tree a step copies.
walk(t) ==
    CASE t = "export ledger" -> DOMAIN city
      [] t = "export objects" -> objects
      [] t = "restore ledger" -> DOMAIN bundle.ledger
      [] t = "restore objects" -> bundle.objects
      [] OTHER -> {}

\* A tree's files are listed first and copied one by one, while the city goes on.
Undertake(t) == task' = t /\ todo' = walk(t)

copied_tree ==
    /\ task \in {"export ledger", "export objects", "restore ledger", "restore objects"}
    /\ todo = {} /\ Undertake(After(task))
    /\ UNCHANGED <<city, objects, bundle, root, answer, stops, vouched>>

\* The files are sorted by name: segments come in their order.
NextFile(i) == i \in todo /\ \A j \in todo : i <= j

-----------------------------------------------------------------------------
(* Bundle::export_with *)

export ==
    /\ task = "none" /\ Undertake(ExportOrder[1])
    /\ UNCHANGED <<city, objects, bundle, root, answer, stops, vouched>>

export_ledger ==
    /\ task = "export ledger"
    /\ \E i \in todo :
        /\ NextFile(i) /\ todo' = todo \ {i}
        /\ bundle' = [bundle EXCEPT !.ledger = WriteFile(@, i, city[i])]
    /\ UNCHANGED <<city, objects, root, task, answer, stops, vouched>>

export_objects ==
    /\ task = "export objects"
    /\ \E o \in todo :
        /\ todo' = todo \ {o}
        /\ bundle' = [bundle EXCEPT !.objects = @ \cup {o}, !.spoilt = @ \ {o}]
    /\ UNCHANGED <<city, objects, root, task, answer, stops, vouched>>

\* A copy whose chain does not verify is refused; its files stay, and the
\* manifest that was there.
export_manifest ==
    /\ task = "export manifest" /\ task' = "none"
    /\ LET lines == read_lines(bundle.ledger) IN
        IF Verifies(lines)
        THEN /\ bundle' = [bundle EXCEPT !.manifest = ManifestOf(lines)]
             /\ vouched' = vouched \cup {ManifestOf(lines)}
        ELSE UNCHANGED <<bundle, vouched>>
    /\ UNCHANGED <<city, objects, root, todo, answer, stops>>

-----------------------------------------------------------------------------
(* Bundle::restore_with *)

Occupied(dir) == DOMAIN dir # {}

\* No manifest, or a ledger in the directory, refuses before anything is
\* written.
restore ==
    /\ task = "none"
    /\ IF bundle.manifest = Nothing \/ Occupied(root.ledger)
       THEN answer' = "refused" /\ UNCHANGED <<root, task, todo>>
       ELSE /\ Undertake(RestoreOrder[1]) /\ answer' = "none"
            /\ root' = [root EXCEPT !.spoilt = bundle.spoilt]
    /\ UNCHANGED <<city, objects, bundle, stops, vouched>>

restore_ledger ==
    /\ task = "restore ledger"
    /\ \E i \in todo :
        /\ NextFile(i) /\ todo' = todo \ {i}
        /\ root' = [root EXCEPT !.ledger = WriteFile(@, i, bundle.ledger[i])]
    /\ UNCHANGED <<city, objects, bundle, task, answer, stops, vouched>>

restore_objects ==
    /\ task = "restore objects"
    /\ \E o \in todo :
        /\ todo' = todo \ {o}
        /\ root' = [root EXCEPT !.objects = @ \cup {o}]
    /\ UNCHANGED <<city, objects, bundle, task, answer, stops, vouched>>

\* The count and the head; the numbers of objects and of files are read back
\* and not compared.
Agrees(found, claimed) == found = claimed

\* The walk and the comparison. A refusal leaves everything where it is.
restore_walk ==
    /\ task = "restore walk" /\ task' = "none"
    /\ LET lines == read_lines(root.ledger) IN
        answer' = IF Verifies(lines) /\ Agrees(ManifestOf(lines), bundle.manifest)
                  THEN "restored" ELSE "refused"
    /\ UNCHANGED <<city, objects, bundle, root, todo, stops, vouched>>

-----------------------------------------------------------------------------
(* What goes wrong *)

Bereft(o) == [bundle EXCEPT !.objects = @ \ {o}, !.spoilt = @ \cup {o}]

\* The command stops between two files, or while it replaces one.
Stop ==
    /\ task # "none" /\ task' = "none" /\ todo' = {}
    /\ stops < MaxStops /\ stops' = stops + 1
    /\ \/ UNCHANGED <<bundle, root>>
       \/ /\ task = "export ledger" /\ UNCHANGED root
          /\ \E i \in todo : NextFile(i) /\ \E l \in HalfReplaced(bundle.ledger, i, city[i]) :
                bundle' = [bundle EXCEPT !.ledger = l]
       \/ task = "export objects" /\ (\E o \in todo : bundle' = Bereft(o)) /\ UNCHANGED root
       \/ /\ task = "export manifest" /\ Verifies(read_lines(bundle.ledger))
          /\ bundle' = [bundle EXCEPT !.manifest = Nothing] /\ UNCHANGED root
       \/ /\ task = "restore ledger" /\ UNCHANGED bundle
          /\ \E i \in todo : NextFile(i) /\ \E l \in HalfReplaced(root.ledger, i, bundle.ledger[i]) :
                root' = [root EXCEPT !.ledger = l]
       \/ /\ task = "restore objects" /\ UNCHANGED bundle
          /\ \E o \in todo : root' = [root EXCEPT !.objects = @ \ {o}]
    /\ UNCHANGED <<city, objects, answer, vouched>>

\* A segment is lost on the way, or its last line, or an object.
CarriedShort ==
    /\ task = "none" /\ stops < MaxStops /\ stops' = stops + 1
    /\ \/ \E i \in DOMAIN bundle.ledger :
            \/ bundle' = [bundle EXCEPT !.ledger = RemoveFile(@, i)]
            \/ /\ bundle.ledger[i] # <<>>
               /\ bundle' = [bundle EXCEPT !.ledger = WriteFile(@, i, Front(@[i]))]
       \/ \E o \in bundle.objects : bundle' = Bereft(o)
    /\ UNCHANGED <<city, objects, root, task, todo, answer, vouched>>

BundlesNext ==
    \/ Work \/ Written \/ Roll
    \/ export \/ export_ledger \/ export_objects \/ export_manifest
    \/ restore \/ restore_ledger \/ restore_objects \/ restore_walk
    \/ copied_tree \/ Stop \/ CarriedShort

-----------------------------------------------------------------------------
(* Properties *)

\* The objects the lines name.
Named(lines) == {lines[i] : i \in 1..Len(lines)}

\* What a bundle's history names travels with it, although the city went on
\* putting and writing while it was copied, and although exports were stopped
\* inside any file: once a manifest vouches for the lines, no line names an
\* object the bundle lacks, but one whose file a later export was stopped in,
\* or the carrying lost, and no export has copied since.
NamedTravels ==
    LET lines == read_lines(bundle.ledger) IN
    bundle.manifest = ManifestOf(lines) /\ Verifies(lines) =>
        Named(lines) \subseteq bundle.objects \cup bundle.spoilt

\* A restore that answered Ok restored a history the city had, and one some
\* export vouched for: no line lost, torn, reordered or made up, through
\* stopped exports over an older bundle and copies carried short. Its objects
\* came with it, but those the bundle had lost.
RestoredIsVouchedFor ==
    LET lines == read_lines(root.ledger) IN
    answer = "restored" => /\ IsPrefix(lines, Lines(city))
                           /\ ManifestOf(lines) \in vouched
                           /\ Named(lines) \subseteq root.objects \cup root.spoilt

\* One ledger is never laid over another: the directory's history is its own
\* or comes from the bundle, whatever a stopped restore left behind.
OneHistory == -1 \in Named(read_lines(root.ledger)) => root.ledger = Foreign

\* A bundle is the city it was made of, and makes no other.
BundleIsTheCity == NamedTravels /\ RestoredIsVouchedFor /\ OneHistory

\* Not kept by the code (README, section 7).
\* "Checked on restore, so a truncated or half-copied bundle is refused rather
\* than restored quietly": a restored city has every object its history names.
HalfCopiedIsRefused ==
    answer = "restored" => Named(read_lines(root.ledger)) \subseteq root.objects

\* "A bundle that copied short is refused here rather than becoming a city
\* that is quietly missing its last hour": a refused restore leaves no
\* history behind for the next serve to open.
RefusedBecomesNoCity == answer = "refused" => root.ledger \in {NoFiles, Foreign}

=============================================================================
