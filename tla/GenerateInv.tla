---------------------------- MODULE GenerateInv ----------------------------
(***************************************************************************)
(* The inductive invariant behind what Generate says of the files that     *)
(* refer to each other.  A run meets every client at most once, so a name  *)
(* it has noted stays that of a pipeline in the bundle, and a full run     *)
(* starts from the files it failed to remove, so it notes all the others.  *)
(***************************************************************************)
EXTENDS Generate

\* A run that writes files is under way; one that covers all active clients anew.
Writing == pc # "idle" /\ ~run.stdout
FullRun == Writing /\ Full /\ run.clean

\* The client whose bundle file is about to be written.
Unwritten == IF pc \in {"schema", "bundle"} THEN {run.current} ELSE {}

InLoop == pc \in {"next", "schema", "bundle", "script"}

RunShape ==
    /\ DOMAIN run = DOMAIN NoRun
    /\ run.stdout \in BOOLEAN /\ run.clean \in BOOLEAN /\ run.errors \in BOOLEAN
    /\ edited \in BOOLEAN

Phases ==
    /\ pc \in Steps
    /\ pc \notin {"idle", "variables", "next"} => ~run.stdout
    /\ pc \in {"bundles", "schemas", "registry", "stale"} => run.clean
    /\ pc \in {"registry", "stale"} => Full
    /\ Writing => last = "unfinished"
    /\ ~InLoop => run.left = run.clients /\ ~run.errors
    /\ pc = "idle" => run = NoRun

\* What a pipeline file refers to is there first and goes last.
SchemaFirst ==
    /\ DOMAIN refers = DOMAIN bundle /\ undeleted \subseteq DOMAIN bundle
    /\ metaYml \in BOOLEAN
    /\ \A c \in DOMAIN bundle \ (undeleted \cup rekeyed) :
          c \in DOMAIN schemaYml /\ refers[c].client = schemaYml[c]
    /\ DOMAIN bundle \ undeleted # {} => metaYml
    /\ pc = "schemas" => ToRemove(DOMAIN bundle) \subseteq undeleted
    /\ pc = "bundle" =>
          /\ run.current \in DOMAIN schemaYml
          /\ schemaYml[run.current] = SchemaKey[run.current][run.target.suffix]
    /\ InLoop /\ ~run.stdout => metaYml

\* A name the run has noted belongs to a client it is done with.
NamesNoted ==
    /\ ~InLoop => run.names = {}
    /\ run.names \subseteq Pipelines
    /\ \A key \in run.names : key[1] \notin run.left \cup Unwritten
    /\ Unwritten \cap run.left = {}
    /\ \A key \in run.names : key[1] \notin undeleted
    /\ FullRun /\ pc # "bundles" =>
          \A c \in DOMAIN bundle \ undeleted : PipelineKeys(c, bundle[c]) \subseteq run.names

NamesRegistered ==
    /\ ~Writing /\ last # "unfinished" =>
          /\ registry.names \subseteq Pipelines
          /\ \A key \in registry.names : key[1] \notin undeleted
    /\ ~Writing /\ last \in {"full", "complete"} =>
          \A c \in DOMAIN bundle \ undeleted : PipelineKeys(c, bundle[c]) \subseteq registry.names

\* Without an error the bundle grows by one client a time to those the run covers.
ClientsCovered ==
    /\ Writing /\ Full /\ ~edited => run.clients = config.active
    /\ FullRun /\ pc # "bundles" /\ ~run.errors =>
          DOMAIN bundle \ undeleted = run.clients \ (run.left \cup Unwritten)
    /\ run.left \cup Unwritten \subseteq run.clients
    /\ ~Writing /\ last = "complete" /\ ~edited => DOMAIN bundle \ undeleted = config.active

IInv ==
    /\ RunShape
    /\ Phases
    /\ SchemaFirst
    /\ NamesNoted
    /\ NamesRegistered
    /\ ClientsCovered

-----------------------------------------------------------------------------
(***************************************************************************)
(* The second invariant, about what the files contain.  It is inductive    *)
(* together with the first.                                                *)
(***************************************************************************)

\* A client of the loop is in hand, from its resolution to its last script.
InHand == pc \in {"schema", "bundle", "script"}

RunTyped ==
    /\ run.clients \subseteq Clients /\ run.left \subseteq run.clients
    /\ run.current \in run.clients \cup {NoClient}
    /\ InHand => run.current # NoClient
    /\ run.names \subseteq Clients \X Nat
    /\ run.script \in 1..Len(ScriptKinds)
    /\ IsCatalog(run.catalog)
    /\ InHand => TableMap(run.tables)

FilesTyped ==
    /\ config \in Configs
    /\ DOMAIN bundle \subseteq Clients /\ DOMAIN schemaYml \subseteq Clients
    /\ DOMAIN registry = DOMAIN NoRegistry
    /\ registry.written \in BOOLEAN /\ registry.names \subseteq Clients \X Nat
    /\ DOMAIN scripts = ToSet(ScriptKinds)
    /\ \A k \in DOMAIN scripts : DOMAIN scripts[k] \subseteq Clients
    /\ last \in {"none", "unfinished", "partial", "full", "complete"}
    /\ torn \subseteq Clients /\ rekeyed \subseteq Clients
    /\ edits \in 0..MaxEdits /\ faults \in 0..MaxFaults

\* Each file is one split of a client's tables.
SplitFiles ==
    \A c \in DOMAIN bundle :
        /\ DOMAIN bundle[c] \subseteq Nat
        /\ {} \notin {bundle[c][s] : s \in DOMAIN bundle[c]}
        /\ \A s, t \in DOMAIN bundle[c] : s # t => bundle[c][s] \cap bundle[c][t] = {}

\* The k-th script of client c lists these tables.
Lists(k, c, tables) == c \in DOMAIN scripts[k] /\ scripts[k][c] = tables

\* While its scripts are written a client is torn, and those written agree with the file.
ScriptsFollow ==
    /\ \A c \in DOMAIN bundle \ (torn \cup undeleted) : \A k \in DOMAIN scripts :
          Lists(k, c, TablesOf(bundle[c]))
    /\ pc = "script" =>
          /\ run.current \in (DOMAIN bundle \cap torn) \ undeleted
          /\ TablesOf(bundle[run.current]) = DOMAIN run.tables
          /\ \A i \in 1..(run.script - 1) :
                Lists(ScriptKinds[i], run.current, DOMAIN run.tables)

\* Until the next edit the tables of a client are found again in the files.
Resolved(c) == Resolve(config.catalog, config.overrides[c])

\* Every file in the bundle comes from one full run, the present or the last one, or it
\* could not be removed.
Fresh ==
    \/ FullRun /\ pc # "bundles"
    \/ ~Writing /\ last \in {"full", "complete"}

MadeFromFiles ==
    /\ Writing /\ Full /\ ~edited =>
          /\ run.catalog = config.catalog
          /\ InHand => Ready(run.current) /\ run.tables = Resolved(run.current).tables
    /\ Fresh /\ ~edited => \A c \in DOMAIN bundle \ undeleted :
                              Ready(c) /\ TablesOf(bundle[c]) = DOMAIN Resolved(c).tables

ContentInv ==
    /\ RunTyped
    /\ FilesTyped
    /\ SplitFiles
    /\ ScriptsFollow
    /\ MadeFromFiles

=============================================================================
