------------------------------ MODULE MCParts -------------------------------
(***************************************************************************)
(* The smaller parts of the city for TLC, one at a time: a behaviour is      *)
(* about the part it begins with, and the others stand still in one of       *)
(* their initial states.                                                     *)
(***************************************************************************)
EXTENDS McpSession, ContentStore, Bundles, BuildingRules, Streams, Attribution,
        WorkshopOrder, Cadences

CONSTANT Parts

VARIABLE part

vars == <<part, mcpVars, storeVars, bundleVars, rulesVars, streamVars, attributionVars,
          workshopVars, cadenceVars>>

-----------------------------------------------------------------------------
(* The data *)

Words == {{}, {"write"}, {"egress"}, {"reading"}, {"write", "egress"}}

MCLines ==
    {Heading(w) : w \in Words}
        \cup {Item(a) : a \in {<<"hall">>, Room, <<"lab", Reserved>>, Unread}}
        \cup {Key("confidential", v, b) : v \in {"true", "false", "maybe"}, b \in BOOLEAN}
        \cup {Key("review", v, FALSE) : v \in {"true", "yes"}}

\* Every text of up to three lines.
MCTexts == SeqOf(MCLines, 3)

\* An open building, a closed one, one with a domain outside itself, and one
\* that says nothing where it counts.
MCProposals ==
    {<<Key("confidential", "false", FALSE)>>,
     <<Key("confidential", "true", FALSE)>>,
     <<Heading({"write"}), Item(<<"hall">>), Key("confidential", "false", TRUE)>>,
     <<Heading({"egress"}), Key("confidential", "true", TRUE)>>}

\* Prompts in which a segment comes twice, with and without weight.
MCPrompts == {<<Weighed(1, m), Weighed(2, n), Weighed(1, k)>> : m, n, k \in {0, 1, 3}}

-----------------------------------------------------------------------------
(* At rest *)

McpAtRest ==
    /\ transport = "stdio" /\ program = "plain" /\ child = "up" /\ kin = "none"
    /\ writing = "none" /\ pipe = <<>> /\ answers = <<>> /\ session = 0 /\ life = "initialize" /\ asked = 0
    /\ serial = 0 /\ written = 0 /\ heard = <<>> /\ got = <<>>

StoreAtRest ==
    /\ store = [c \in Contents |-> [n \in Names |-> None]]
    /\ step = "idle" /\ hash = (CHOOSE c \in Contents : TRUE) /\ cutting = FALSE
    /\ rest = [c \in Contents |-> Missing] /\ fault = "io" /\ struck = 0 /\ puts = 0 /\ kept = {}

BundlesAtRest ==
    /\ city = << <<>> >> /\ objects = {}
    /\ bundle = [ledger |-> NoFiles, objects |-> {}, spoilt |-> {}, manifest |-> Nothing]
    /\ root = [ledger |-> NoFiles, objects |-> {}, spoilt |-> {}]
    /\ task = "none" /\ todo = {} /\ answer = "none" /\ stops = 0 /\ vouched = {}

RulesAtRest ==
    /\ about = "layers" /\ laid = Absent /\ author = "person" /\ legacy = FALSE
    /\ docs = [l \in Layers |-> Unset] /\ site = Absent /\ runs = 0 /\ settings = 0
    /\ meant = docs /\ touched = {} /\ sent = {}

StreamAtRest ==
    /\ dialect = "openai" /\ saying = <<[kind |-> "text", pieces |-> <<1>>, signed |-> FALSE]>>
    /\ started = {} /\ sentOf = <<0>> /\ why = "none"
    /\ frames = <<>> /\ garbled = 0 /\ shown = <<>> /\ outcome = Waiting

WorkshopAtRest ==
    /\ needs = [n \in Nodes |-> {}] /\ inside = {} /\ phase = "check"
    /\ remaining = [n \in {} |-> 0] /\ queue = <<>> /\ order = <<>> /\ desk = <<>>

CadencesAtRest ==
    /\ cadence = Daily(0) /\ now = WeekMinutes * MinuteMs /\ after = now
    /\ looked = [after |-> now, now |-> now, due |-> FALSE]

Init ==
    /\ part \in Parts
    /\ IF part = "mcp" THEN McpInit ELSE McpAtRest
    /\ IF part = "store" THEN StoreInit ELSE StoreAtRest
    /\ IF part = "bundles" THEN BundlesInit ELSE BundlesAtRest
    /\ IF part = "rules" THEN RulesInit ELSE RulesAtRest
    /\ IF part = "streams" THEN StreamsInit ELSE StreamAtRest
    /\ AttributionInit
    /\ IF part = "workshop" THEN WorkshopInit ELSE WorkshopAtRest
    /\ IF part = "cadences" THEN CadencesInit ELSE CadencesAtRest

-----------------------------------------------------------------------------
Mcp == part = "mcp" /\ McpNext
    /\ UNCHANGED <<part, storeVars, bundleVars, rulesVars, streamVars, attributionVars, workshopVars, cadenceVars>>
Store == part = "store" /\ StoreNext
    /\ UNCHANGED <<part, mcpVars, bundleVars, rulesVars, streamVars, attributionVars, workshopVars, cadenceVars>>
Carrying == part = "bundles" /\ BundlesNext
    /\ UNCHANGED <<part, mcpVars, storeVars, rulesVars, streamVars, attributionVars, workshopVars, cadenceVars>>
Ruling == part = "rules" /\ RulesNext
    /\ UNCHANGED <<part, mcpVars, storeVars, bundleVars, streamVars, attributionVars, workshopVars, cadenceVars>>
Streaming == part = "streams" /\ StreamsNext
    /\ UNCHANGED <<part, mcpVars, storeVars, bundleVars, rulesVars, attributionVars, workshopVars, cadenceVars>>
Billing == part = "attribution" /\ AttributionNext
    /\ UNCHANGED <<part, mcpVars, storeVars, bundleVars, rulesVars, streamVars, workshopVars, cadenceVars>>
Ordering == part = "workshop" /\ WorkshopNext
    /\ UNCHANGED <<part, mcpVars, storeVars, bundleVars, rulesVars, streamVars, attributionVars, cadenceVars>>
Looking == part = "cadences" /\ CadencesNext
    /\ UNCHANGED <<part, mcpVars, storeVars, bundleVars, rulesVars, streamVars, attributionVars, workshopVars>>

Next == Mcp \/ Store \/ Carrying \/ Ruling \/ Streaming \/ Billing \/ Ordering \/ Looking

\* The only wait of these parts that has an end is a call's to a tool server.
Spec == Init /\ [][Next]_vars /\ WF_mcpVars(part = "mcp" /\ exchange)

-----------------------------------------------------------------------------
\* What the city works out agrees with what it is meant to be: bills with
\* their cuts, graphs with an order, entries of a schedule with the clock.
WorkedOutRight ==
    /\ CutsAddUp /\ SharesAreFair
    /\ OrderedIffAcyclic /\ NeedsComeFirst /\ LaidOutWhole
    /\ DueWhenItFired
=============================================================================
