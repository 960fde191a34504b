---------------------------- MODULE BuildingRules ---------------------------
(***************************************************************************)
(* What a building's runs may reach: BUILDING.md as city::policy evaluates  *)
(* it, the write domain and its gate, the three CONFIG.toml layers of       *)
(* city::config_layers, and the run that is frozen with all of them         *)
(* (dispatching, workbench).                                                *)
(*                                                                         *)
(* A text is a sequence of the lines evaluate tells apart. An address is    *)
(* the sequence of its segments.                                            *)
(***************************************************************************)
EXTENDS Naturals, Sequences, SequencesExt

CONSTANTS
    Absent,       \* no file, no run
    Texts,        \* what a person may have written as a BUILDING.md
    Proposals,    \* what a run, or a person in between, replaces it with
    MaxRuns,
    MaxSettings   \* changes to the configuration layers

ASSUME RulesAssumption == Proposals \subseteq Texts /\ MaxRuns \in Nat /\ MaxSettings \in Nat

Reserved == ".sprawling"
Unread == <<>>                        \* a list item that is no address
Lab == <<"lab">>
Room == <<"lab", "room">>
Addresses == {Lab, Room, <<"hall">>, <<"hall", "desk">>, <<"lab", Reserved>>, <<"lab2">>}

is_within(addr, prefix) == IsPrefix(prefix, addr)
is_reserved(addr) == \E i \in 1..Len(addr) : addr[i] = Reserved

-----------------------------------------------------------------------------
(* policy::evaluate *)

\* The lines: a heading with the section words it contains, a list item with
\* the address it parses to (or Unread), a key with its value, which may
\* itself be written as a list item.
Heading(words) == [kind |-> "heading", words |-> words]
Item(addr) == [kind |-> "item", addr |-> addr]
Key(name, value, bullet) == [kind |-> "key", name |-> name, value |-> value, bullet |-> bullet]

\* Every line of a text is one of them.
Legible(text) ==
    \A i \in 1..Len(text) :
        \/ \E words \in SUBSET {"write", "reading", "egress"} : text[i] = Heading(words)
        \/ \E addr \in Addresses \cup {Unread} : text[i] = Item(addr)
        \/ /\ text[i].kind = "key" /\ text[i].name \in {"confidential", "review"}
           /\ \E bullet \in BOOLEAN : text[i] = Key(text[i].name, text[i].value, bullet)

ASSUME TextsAssumption ==
    Absent \notin Texts /\ \A text \in Texts : Len(text) \in Nat /\ Legible(text)

Bulleted(line) == line.kind = "item" \/ (line.kind = "key" /\ line.bullet)

Blank == [ok |-> TRUE, words |-> {}, confidential |-> "unsaid", review |-> FALSE,
          prefixes |-> <<>>, egress |-> 0]

\* Bug: a list item in another section is read as a key all the same.
InList_Keyed(seen, line) ==
    line.kind = "item" /\ seen.words \cap {"reading", "egress"} # {}

\* A list item of the reading room or of the egress list is that and nothing
\* else, whatever it says.
InList(seen, line) == Bulleted(line) /\ seen.words \cap {"reading", "egress"} # {}

\* One line of the text, in the order the loop asks.
Line(seen, line) ==
    IF ~seen.ok THEN seen
    ELSE IF line.kind = "heading" THEN [seen EXCEPT !.words = line.words]
    ELSE IF InList(seen, line)
         THEN IF "reading" \in seen.words THEN seen ELSE [seen EXCEPT !.egress = @ + 1]
    ELSE IF line.kind = "key"
         THEN IF line.value \notin {"true", "false"} THEN [seen EXCEPT !.ok = FALSE]
              ELSE IF line.name = "review" THEN [seen EXCEPT !.review = line.value = "true"]
              ELSE [seen EXCEPT !.confidential = line.value]
    ELSE IF "write" \in seen.words /\ line.addr # Unread
         THEN [seen EXCEPT !.prefixes = Append(@, line.addr)]
    ELSE seen

\* A file that does not say, and a confidential one with an egress list, are
\* refused.
evaluate(text) ==
    LET read[n \in 0..Len(text)] == IF n = 0 THEN Blank ELSE Line(read[n - 1], text[n])
        said == read[Len(text)]
    IN  [said EXCEPT !.ok = /\ @ /\ said.confidential # "unsaid"
                            /\ ~(said.confidential = "true" /\ said.egress > 0)]

\* What a building without a file is ruled by.
Ordinary == [Blank EXCEPT !.confidential = "false"]

-----------------------------------------------------------------------------
(* The write domain and its gate *)

Reaches(r) == r.confidential = "true" /\ \E i \in 1..Len(r.prefixes) : ~is_within(r.prefixes[i], Lab)

\* BuildingRules::write_domain over WriteDomain::new: the prefixes, or none
\* when they are refused.
write_domain(r) ==
    LET prefixes == IF r.prefixes = <<>> THEN {Lab} ELSE ToSet(r.prefixes)
    IN  IF Reaches(r) \/ \E p \in prefixes : is_reserved(p) THEN {} ELSE prefixes

\* WriteDomain::admits, through kernel::domain and the bench's admit.
admits(domain, target) == ~is_reserved(target) /\ \E p \in domain : is_within(target, p)

-----------------------------------------------------------------------------
(* The configuration layers *)

Layers == {"city", "building", "room"}
Sections == {"effort", "sandbox", "mcp"}
Unset == [s \in Sections |-> "none"]
Garbled == [s \in Sections |-> "garbled"]    \* a file that is not TOML

\* What a layer file says of a section. ConfigLayer::parse refuses a mount
\* of the city's own subtree and two servers of one name; it takes an empty
\* list of servers for a list.
Says ==
    [effort |-> {"none", "high"}, sandbox |-> {"none", "shell", "mounts_reserved"},
     mcp |-> {"none", "empty", "server", "two_of_a_name"}]
Unparsed == {"mounts_reserved", "two_of_a_name"}

parses(doc) == doc # Garbled /\ \A s \in Sections : doc[s] \notin Unparsed

\* LayeredValue::resolve: the nearest layer that says.
resolve(docs, s) ==
    IF docs["room"][s] # "none" THEN docs["room"][s]
    ELSE IF docs["building"][s] # "none" THEN docs["building"][s] ELSE docs["city"][s]

\* read_document, insert, write_document: every other section is kept.
WithSection(doc, s, value) == [doc EXCEPT ![s] = value]

-----------------------------------------------------------------------------
VARIABLES
    about,     \* what a behaviour is about: any text, changes of it, or the layers
    laid,      \* lab/.sprawling/BUILDING.md, or Absent
    author,    \* who wrote it last
    legacy,    \* whether lab/BUILDING.md, the old place, is there
    docs,      \* the CONFIG.toml of each layer; a missing one says nothing
    site,      \* the run at work in lab/room, or Absent
    runs, settings,
    meant,     \* history: what was last chosen, by layer and section
    touched,   \* history: the address written last, and under which text
    sent       \* history: where the last naming call went, and under which text

rulesVars == <<about, laid, author, legacy, docs, site, runs, settings, meant, touched, sent>>

RulesInit ==
    /\ about \in {"texts", "rules", "layers"}
    /\ laid \in CASE about = "texts" -> Texts
                  [] about = "rules" -> Proposals \cup {Absent}
                  [] OTHER -> {Absent}
    /\ legacy \in IF about = "rules" THEN BOOLEAN ELSE {FALSE}
    /\ author = "person"
    /\ docs \in [Layers -> {Unset, [Unset EXCEPT !["mcp"] = "server"]}]
    /\ about # "layers" => \A l \in Layers : docs[l] = Unset <=> l # "city"
    /\ site = Absent /\ runs = 0 /\ settings = 0
    /\ meant = docs /\ touched = {} /\ sent = {}

\* policy::load: rules that lie in the old place are refused, never ignored.
load == IF laid # Absent THEN evaluate(laid) ELSE [Ordinary EXCEPT !.ok = ~legacy]

\* write_effort of a dispatch that names one, into the room's own layer.
Chosen(effort) == IF effort = "none" THEN docs
                  ELSE [docs EXCEPT !["room"] = WithSection(@, "effort", effort)]

\* No server is started for a confidential building.
mcp_tools(confidential, servers) == IF confidential = "true" THEN "none" ELSE servers

\* What a run is stood up with: rules as they were agreed to and layers as
\* they are now, both for its whole life.
Frozen(r, effort) ==
    [text |-> laid, confidential |-> r.confidential, domain |-> write_domain(r),
     config |-> [s \in Sections |-> resolve(Chosen(effort), s)],
     servers |-> mcp_tools(r.confidential, resolve(Chosen(effort), "mcp")),
     chosen |-> IF effort = "none" THEN meant
                ELSE [meant EXCEPT !["room"]["effort"] = effort]]

\* Whether stand_up comes to its end.
Stands(r, effort) ==
    /\ \A l \in Layers : parses(Chosen(effort)[l])
    /\ write_domain(r) # {}

\* agree_to_work, session_for, write_effort, stand_up. Work sent to a bare
\* address is named by the digest model first, chosen and called under the
\* policy of an ordinary building: `named` says where that call went.
dispatch(named, effort) ==
    /\ site = Absent /\ runs < MaxRuns /\ load.ok
    /\ about = "texts" => runs = 0 /\ named = "given"
    /\ runs' = runs + 1
    /\ sent' = IF named = "given" THEN sent ELSE {[to |-> named, under |-> laid]}
    /\ IF effort # "none" /\ docs["room"] = Garbled
       THEN UNCHANGED <<docs, meant, site>>
       ELSE /\ docs' = Chosen(effort)
            /\ meant' = IF effort = "none" THEN meant ELSE [meant EXCEPT !["room"]["effort"] = effort]
            /\ site' = IF Stands(load, effort) THEN Frozen(load, effort) ELSE Absent
    /\ UNCHANGED <<about, laid, author, legacy, settings, touched>>

\* An edit that the bench's admit lets through.
write(target) ==
    /\ site # Absent /\ admits(site.domain, target)
    /\ touched' = {[at |-> target, under |-> site.text]}
    /\ UNCHANGED <<about, laid, author, legacy, docs, site, runs, settings, meant, sent>>

\* policy::write_rules: written if it evaluates.
write_rules(text) == evaluate(text).ok

\* RulesTool::invoke, past the govern gate (Approvals).
propose(text) ==
    /\ site # Absent /\ about = "rules"
    /\ write_rules(text)
    /\ laid' = text /\ author' = "run"
    /\ UNCHANGED <<about, legacy, docs, site, runs, settings, meant, touched, sent>>

finish ==
    /\ site # Absent /\ site' = Absent
    /\ UNCHANGED <<about, laid, author, legacy, docs, runs, settings, meant, touched, sent>>

\* A person changes the file, or takes it away, while the city is going.
hand_rules(text) ==
    /\ about = "rules" /\ settings < MaxSettings /\ settings' = settings + 1
    /\ laid' = text /\ author' = "person"
    /\ UNCHANGED <<about, legacy, docs, site, runs, meant, touched, sent>>

\* configure_building: one section or both, of the building's layer. A file
\* that is not TOML is refused before anything is written.
configure(sandbox, mcp) ==
    /\ about = "layers" /\ settings < MaxSettings /\ docs["building"] # Garbled
    /\ settings' = settings + 1
    /\ LET boxed == IF sandbox = "none" THEN docs["building"]
                    ELSE WithSection(docs["building"], "sandbox", sandbox)
           served == IF mcp = "none" THEN boxed ELSE WithSection(boxed, "mcp", mcp)
       IN  docs' = [docs EXCEPT !["building"] = served]
    /\ meant' = [meant EXCEPT !["building"]["sandbox"] = IF sandbox = "none" THEN @ ELSE sandbox,
                              !["building"]["mcp"] = IF mcp = "none" THEN @ ELSE mcp]
    /\ UNCHANGED <<about, laid, author, legacy, site, runs, touched, sent>>

\* A person breaks a layer's file by hand, or mends it.
hand_layer(l) ==
    /\ about = "layers" /\ settings < MaxSettings /\ settings' = settings + 1
    /\ docs' = [docs EXCEPT ![l] = IF @ = Garbled THEN meant[l] ELSE Garbled]
    /\ UNCHANGED <<about, laid, author, legacy, site, runs, meant, touched, sent>>

RulesNext ==
    \/ \E n \in {"given", "local", "remote"}, e \in Says.effort : dispatch(n, e)
    \/ \E a \in Addresses : write(a)
    \/ \E t \in Proposals : propose(t)
    \/ finish
    \/ \E t \in Proposals \cup {Absent} : hand_rules(t)
    \/ \E s \in Says.sandbox, m \in Says.mcp : configure(s, m)
    \/ \E l \in Layers : hand_layer(l)

-----------------------------------------------------------------------------
(* Properties *)

\* A text says a building is confidential: its last word on it that is not
\* an entry of the egress list or of the reading room is `true`.
SaysConfidential(text) ==
    /\ text # Absent
    /\ LET Under(i) == {h \in 1..i - 1 : text[h].kind = "heading"
                                          /\ \A k \in h + 1..i - 1 : text[k].kind # "heading"}
           Listed(i) == text[i].bullet /\ \E h \in Under(i) : text[h].words \cap {"reading", "egress"} # {}
           Said == {i \in 1..Len(text) : /\ text[i].kind = "key" /\ text[i].name = "confidential"
                                         /\ ~Listed(i)}
       IN  \E i \in Said : text[i].value = "true" /\ \A k \in Said : k <= i

\* Every variable has its type.
RulesTypeOK ==
    /\ laid \in Texts \cup {Absent} /\ author \in {"person", "run"}
    /\ \A l \in Layers : docs[l] = Garbled \/ \A s \in Sections : docs[l][s] \in Says[s]
    /\ site # Absent => site.domain # {} /\ site.domain \subseteq Addresses
    /\ runs \in 0..MaxRuns /\ settings \in 0..MaxSettings

\* A run whose building said it was confidential when the run was agreed to
\* has no external server, whatever the layers name, and writes nothing
\* outside the building; what is written while it runs changes nothing of
\* it (evaluate, write_domain, mcp_tools).
ConfidentialIsClosed ==
    /\ site # Absent => (site.confidential = "true" <=> SaysConfidential(site.text))
    /\ site # Absent /\ SaysConfidential(site.text) => site.servers = "none"
    /\ \A t \in touched : SaysConfidential(t.under) => is_within(t.at, Lab)

\* Nothing a run writes is a rule or a setting of its own: the reserved
\* subtree lies inside the building and outside every domain (admits, C17).
ReservedIsNeverWritten == \A t \in touched : ~is_reserved(t.at)

\* Nobody works in a building that does not say what it is: one with a file
\* that leaves it out, or with its rules in the old place, is refused
\* rather than taken for an open one (evaluate, load).
UnsaidIsRefused ==
    site # Absent /\ site.text # Absent =>
        \E i \in 1..Len(site.text) : site.text[i].kind = "key" /\ site.text[i].name = "confidential"

\* A run is frozen with what was last chosen, section by section, at the
\* nearest layer where anything was: a setting is not lost to another that
\* was written after it, and a list emptied on purpose is not inherited
\* (write_effort, write_sandbox, write_mcp, load).
FrozenAsChosen ==
    site # Absent =>
        \A s \in Sections :
            LET spoke == {l \in Layers : site.chosen[l][s] # "none"}
                near == IF "room" \in spoke THEN "room"
                        ELSE IF "building" \in spoke THEN "building" ELSE "city"
            IN  site.config[s] = site.chosen[near][s]

\* A run works under the rules and settings its building had when it was
\* agreed to, and can write neither.
RulesHold ==
    /\ RulesTypeOK /\ ConfidentialIsClosed /\ UnsaidIsRefused
    /\ ReservedIsNeverWritten /\ FrozenAsChosen

\* Not kept by the code (README, section 7).
\* What is sent to a confidential building does not leave the machine: "no
\* chat call may leave a confidential building".
TaskStaysInside == \A s \in sent : SaysConfidential(s.under) => s.to # "remote"
=============================================================================
