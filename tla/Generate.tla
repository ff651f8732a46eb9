------------------------------ MODULE Generate ------------------------------
(***************************************************************************)
(* ipac-delta-sync generate: from the configuration files to the files a   *)
(* bundle deploy takes to the workspace.                                   *)
(*                                                                         *)
(* A run removes what earlier runs wrote, then writes file after file;     *)
(* nothing makes the set of files change together, and a file that cannot  *)
(* be removed stays.  It may cover all active clients or one, keep old     *)
(* files, or only print, and it is for one target of the bundle.  The      *)
(* catalog is read once, the overrides when their client's turn comes, and *)
(* the files may be edited at any time.  The recon job resolves the tables *)
(* again from the deployed configuration and finds the clients in the      *)
(* registry of pipeline names; the monitor and the restart job find the    *)
(* pipelines there.  A deploy copies the tree as it stands, so the         *)
(* properties are stated about the tree.                                   *)
(***************************************************************************)
EXTENDS TableSelection

CONSTANTS
    Clients,   \* the rows of client.json, active or not
    NoClient,  \* "no --client argument"
    NamePart,  \* the pairs <<c, d>> such that the name of d contains that of c
    Configs,   \* what the configuration files may hold
    Targets,   \* what a run may be told of the schemas: dest_schema_suffix and
               \* ipac_metadata_schema, by the bundle's target or by argument
    SchemaKey, \* the resource key of a schema's name, by client and suffix
    NameKey,   \* ... and that of a name given for the metadata schema
    SharedKey, \* schema_ipac_metadata, whatever name is given
    MaxEdits,  \* bound on edits of the configuration
    MaxFaults  \* bound on runs that end in an exception or are interrupted, and on
               \* removals that leave files behind

ASSUME GenerateAssumption ==
    /\ NoClient \notin Clients
    /\ NamePart \subseteq Clients \X Clients /\ \A c \in Clients : <<c, c>> \in NamePart
    /\ \A cfg \in Configs :
          /\ cfg.active \subseteq Clients /\ cfg.variables \in BOOLEAN
          /\ IsCatalog(cfg.catalog) /\ cfg.overrides \in [Clients -> OverrideSets]
    /\ MaxEdits \in Nat /\ MaxFaults \in Nat

VARIABLES
    config,    \* [active, catalog, overrides, variables]: client.json, common_tables.json,
               \* client_overrides/, and whether the variables of databricks.yml are good
    pc,        \* next step of the run, "idle" if none is under way
    run,       \* its arguments and local variables
    bundle,    \* generated/bundle: the pipelines of each client that has a file
    refers,    \* ... and the keys of the two schemas they depend on
    schemaYml, \* generated/config/schema: the key each client's file defines
    metaYml,   \* ... and whether ipac_metadata_schema.yml exists
    registry,  \* generated/config/pipeline_names.json
    scripts,   \* src/<client>/sql: per script and client, the tables it lists
    last,      \* history: what the last run that writes files was; a full one without
               \* errors, which exits with 0, is "complete"
    edited,    \* history: configuration edited since the last full run began
    torn,      \* history: clients whose bundle file is newer than one of their scripts
    undeleted, \* history: clients whose bundle file a run failed to remove, until it is
               \* removed or written again
    rekeyed,   \* history: clients with a bundle file whose schema file was since written
               \* under another key
    edits, faults

fileVars == <<bundle, refers, schemaYml, metaYml, registry, scripts>>
historyVars == <<last, edited, torn, undeleted, rekeyed>>
vars == <<config, pc, run, fileVars, historyVars, edits, faults>>

-----------------------------------------------------------------------------
(* Values *)

\* In the order they are written.
ScriptKinds == <<"enable_ct", "grant_ct", "grant_cdc", "status">>

NoTarget == [suffix |-> "none", metadata |-> "none"]

NoRun == [client |-> NoClient, clients |-> {}, catalog |-> <<>>, split |-> "count",
          target |-> NoTarget, clean |-> FALSE, stdout |-> FALSE, left |-> {}, current |-> NoClient,
          tables |-> <<>>, script |-> 1, names |-> {}, errors |-> FALSE]

NoRegistry == [written |-> FALSE, names |-> {}]

Full == run.client = NoClient

Steps == {"idle", "bundles", "schemas", "registry", "stale", "variables", "shared",
          "next", "schema", "bundle", "script"}

Pipelines == UNION {PipelineKeys(c, bundle[c]) : c \in DOMAIN bundle}
TablesOf(batches) == UNION {batches[s] : s \in DOMAIN batches}

\* The schema resources the pipelines of a client depend on, and those the tree defines.
\* The file of the metadata schema always defines the same key.
DependsOn(c) == {refers[c].metadata, refers[c].client}
Schemas == {schemaYml[c] : c \in DOMAIN schemaYml} \cup {r \in {SharedKey} : metaYml}

LoadsOverrides(c) == config.overrides[c].valid

Init ==
    /\ config \in Configs
    /\ pc = "idle" /\ run = NoRun
    /\ bundle = <<>> /\ refers = <<>> /\ schemaYml = <<>> /\ metaYml = FALSE
    /\ registry = NoRegistry
    /\ scripts = [k \in ToSet(ScriptKinds) |-> <<>>]
    /\ last = "none" /\ edited = FALSE /\ torn = {} /\ undeleted = {} /\ rekeyed = {}
    /\ edits = 0 /\ faults = 0

-----------------------------------------------------------------------------
(* The command, up to the loop over the clients *)

\* One client may be named although it is not active.
Covered(client) == IF client = NoClient THEN config.active ELSE {client}

\* client.json and common_tables.json are read here, once.  Without a client to work on
\* the command returns before it touches a file.
Start_AllActive(client, split, target, clean, stdout) ==
    /\ pc = "idle" /\ Covered(client) # {}
    /\ run' = [NoRun EXCEPT !.client = client, !.clients = Covered(client),
                            !.catalog = config.catalog, !.split = split,
                            !.target = target, !.clean = clean, !.stdout = stdout,
                            !.left = config.active]
    /\ pc' = IF clean /\ ~stdout THEN "bundles" ELSE "variables"
    /\ last' = IF stdout THEN last ELSE "unfinished"
    /\ edited' = (edited /\ (stdout \/ client # NoClient))
    /\ UNCHANGED <<config, fileVars, torn, undeleted, rekeyed, edits, faults>>
Start(client, split, target, clean, stdout) ==
    /\ pc = "idle" /\ Covered(client) # {}
    /\ run' = [NoRun EXCEPT !.client = client, !.clients = Covered(client),
                            !.catalog = config.catalog, !.split = split,
                            !.target = target, !.clean = clean, !.stdout = stdout,
                            !.left = Covered(client)]
    /\ pc' = IF clean /\ ~stdout THEN "bundles" ELSE "variables"
    /\ last' = IF stdout THEN last ELSE "unfinished"
    /\ edited' = (edited /\ (stdout \/ client # NoClient))
    /\ UNCHANGED <<config, fileVars, torn, undeleted, rekeyed, edits, faults>>

\* Of the clients that have a file in a directory, those whose file a run removes: a
\* full run every file, a run for one client that client's.
ToRemove_Covered(clients) == clients \cap run.clients
ToRemove(clients) == IF Full THEN clients ELSE clients \cap run.clients

\* _unlink_generated: a file that cannot be removed stays, with a warning, and the
\* run goes on.
Unlink(allGone) ==
    \/ allGone /\ UNCHANGED faults
    \/ ~allGone /\ faults < MaxFaults /\ faults' = faults + 1

RemoveBundles ==
    /\ pc = "bundles" /\ pc' = "schemas"
    /\ \E stay \in SUBSET ToRemove(DOMAIN bundle) :
          LET kept == (DOMAIN bundle \ ToRemove(DOMAIN bundle)) \cup stay
          IN  /\ Unlink(stay = {})
              /\ bundle' = Restrict(bundle, kept)
              /\ refers' = Restrict(refers, kept)
              /\ undeleted' = (undeleted \cap kept) \cup stay
    /\ UNCHANGED <<config, run, schemaYml, metaYml, registry, scripts, last, edited, torn,
                   rekeyed, edits>>

RemoveSchemas_Shared ==
    /\ pc = "schemas" /\ pc' = IF Full THEN "registry" ELSE "variables"
    /\ schemaYml' = Restrict(schemaYml, DOMAIN schemaYml \ ToRemove(DOMAIN schemaYml))
    /\ metaYml' = FALSE
    /\ UNCHANGED <<config, run, bundle, refers, registry, scripts, historyVars, edits, faults>>
RemoveSchemas ==
    /\ pc = "schemas" /\ pc' = IF Full THEN "registry" ELSE "variables"
    /\ \E stay \in SUBSET ToRemove(DOMAIN schemaYml), metaStays \in {metaYml, metaYml /\ ~Full} :
          /\ Unlink(stay = {} /\ metaStays = (metaYml /\ ~Full))
          /\ schemaYml' = Restrict(schemaYml,
                              (DOMAIN schemaYml \ ToRemove(DOMAIN schemaYml)) \cup stay)
          /\ metaYml' = metaStays
    /\ UNCHANGED <<config, run, bundle, refers, registry, scripts, historyVars, edits>>

RemoveRegistry ==
    /\ pc = "registry" /\ pc' = "stale"
    /\ \/ registry' = NoRegistry /\ UNCHANGED faults
       \/ registry.written /\ UNCHANGED registry /\ Unlink(FALSE)
    /\ UNCHANGED <<config, run, bundle, refers, schemaYml, metaYml, scripts, historyVars,
                   edits>>

\* The folder of a client that is not active goes, its scripts with it.
RemoveStaleDirs ==
    /\ pc = "stale" /\ pc' = "variables"
    /\ scripts' = [k \in DOMAIN scripts |->
                      Restrict(scripts[k], DOMAIN scripts[k] \cap run.clients)]
    /\ UNCHANGED <<config, run, bundle, refers, schemaYml, metaYml, registry, historyVars,
                   edits, faults>>

\* Folders are made and the bundle variables read.  A bad one, such as a batch size that
\* is not positive, ends the command here, after the clean.
ResolveVariables ==
    /\ pc = "variables"
    /\ IF config.variables
       THEN /\ pc' = IF run.stdout THEN "next" ELSE "shared"
            /\ UNCHANGED run
       ELSE pc' = "idle" /\ run' = NoRun
    /\ UNCHANGED <<config, fileVars, historyVars, edits, faults>>

WriteShared ==
    /\ pc = "shared" /\ pc' = "next"
    /\ metaYml' = TRUE
    /\ UNCHANGED <<config, run, bundle, refers, schemaYml, registry, scripts, historyVars,
                   edits, faults>>

-----------------------------------------------------------------------------
(* One client of the loop *)

\* An override file that does not validate or names another client raises, as does
\* the resolution; the loop counts the error and goes on.  The order of the clients is
\* that of client.json, which is left open.
ResolveClient_ErrorLost(c) ==
    /\ pc = "next" /\ c \in run.left
    /\ LET ov  == config.overrides[c]
           res == Resolve(run.catalog, ov)
           ok  == ov.valid /\ res.ok
       IN  /\ pc' = IF ok /\ ~run.stdout THEN "schema" ELSE "next"
           /\ run' = [run EXCEPT !.left = @ \ {c}, !.errors = ~ok,
                                 !.current = IF ok /\ ~run.stdout THEN c ELSE NoClient,
                                 !.tables = IF ok /\ ~run.stdout THEN res.tables ELSE <<>>]
    /\ UNCHANGED <<config, fileVars, historyVars, edits, faults>>
ResolveClient_CommonOnly(c) ==
    /\ pc = "next" /\ c \in run.left
    /\ LET ov  == NoOverrides
           res == Resolve(run.catalog, ov)
           ok  == ov.valid /\ res.ok
       IN  /\ pc' = IF ok /\ ~run.stdout THEN "schema" ELSE "next"
           /\ run' = [run EXCEPT !.left = @ \ {c}, !.errors = @ \/ ~ok,
                                 !.current = IF ok /\ ~run.stdout THEN c ELSE NoClient,
                                 !.tables = IF ok /\ ~run.stdout THEN res.tables ELSE <<>>]
    /\ UNCHANGED <<config, fileVars, historyVars, edits, faults>>
ResolveClient(c) ==
    /\ pc = "next" /\ c \in run.left
    /\ LET ov  == config.overrides[c]
           res == Resolve(run.catalog, ov)
           ok  == LoadsOverrides(c) /\ res.ok
       IN  /\ pc' = IF ok /\ ~run.stdout THEN "schema" ELSE "next"
           /\ run' = [run EXCEPT !.left = @ \ {c}, !.errors = @ \/ ~ok,
                                 !.current = IF ok /\ ~run.stdout THEN c ELSE NoClient,
                                 !.tables = IF ok /\ ~run.stdout THEN res.tables ELSE <<>>]
    /\ UNCHANGED <<config, fileVars, historyVars, edits, faults>>

WriteSchema ==
    /\ pc = "schema" /\ pc' = "bundle"
    /\ schemaYml' = Put(schemaYml, run.current, SchemaKey[run.current][run.target.suffix])
    /\ rekeyed' = rekeyed \cup
                     {c \in {run.current} \cap DOMAIN bundle : refers[c].client # schemaYml'[c]}
    /\ UNCHANGED <<config, run, bundle, refers, metaYml, registry, scripts, last, edited,
                   torn, undeleted, edits, faults>>

\* The file, then the names of its pipelines from the same split.  The pipelines depend
\* on the schemas by the names this run was told.
WriteBundle ==
    /\ pc = "bundle" /\ pc' = "script"
    /\ LET batches == SplitTables(run.tables, run.split)
       IN  /\ bundle' = Put(bundle, run.current, batches)
           /\ refers' = Put(refers, run.current,
                            [metadata |-> NameKey[run.target.metadata],
                             client   |-> SchemaKey[run.current][run.target.suffix]])
           /\ run' = [run EXCEPT !.names = @ \cup PipelineKeys(run.current, batches),
                                 !.script = 1]
    /\ torn' = torn \cup {run.current}
    /\ undeleted' = undeleted \ {run.current}
    /\ rekeyed' = rekeyed \ {run.current}
    /\ UNCHANGED <<config, schemaYml, metaYml, registry, scripts, last, edited,
                   edits, faults>>

\* What #table_list is filled with, in each of the scripts.
TableList(tables) == DOMAIN tables

\* The four scripts, one file after the other.
WriteScript ==
    /\ pc = "script"
    /\ scripts' = [scripts EXCEPT ![ScriptKinds[run.script]] =
                      Put(@, run.current, TableList(run.tables))]
    /\ IF run.script < Len(ScriptKinds)
       THEN /\ run' = [run EXCEPT !.script = @ + 1]
            /\ UNCHANGED <<pc, torn>>
       ELSE /\ run' = [run EXCEPT !.current = NoClient, !.tables = <<>>, !.script = 1]
            /\ pc' = "next" /\ torn' = torn \ {run.current}
    /\ UNCHANGED <<config, bundle, refers, schemaYml, metaYml, registry, last, edited,
                   undeleted, rekeyed, edits, faults>>

\* The registry is written anew, with the names of this run.
NewRegistry_Merged == [written |-> TRUE, names |-> registry.names \cup run.names]
NewRegistry == [written |-> TRUE, names |-> run.names]

Finish ==
    /\ pc = "next" /\ run.left = {}
    /\ registry' = IF run.stdout THEN registry ELSE NewRegistry
    /\ last' = IF run.stdout THEN last
               ELSE IF ~(Full /\ run.clean) THEN "partial"
               ELSE IF run.errors THEN "full" ELSE "complete"
    /\ pc' = "idle" /\ run' = NoRun
    /\ UNCHANGED <<config, bundle, refers, schemaYml, metaYml, scripts, edited, torn,
                   undeleted, rekeyed, edits, faults>>

\* An exception the command does not catch (a file that cannot be written, a recon
\* cluster tier that is not configured), or Ctrl-C.
Abort ==
    /\ pc # "idle" /\ faults < MaxFaults
    /\ faults' = faults + 1
    /\ pc' = "idle" /\ run' = NoRun
    /\ UNCHANGED <<config, fileVars, historyVars, edits>>

\* Someone edits the configuration files, also while a run is under way.
Edit ==
    /\ edits < MaxEdits /\ edits' = edits + 1
    /\ config' \in Configs
    /\ edited' = TRUE
    /\ UNCHANGED <<pc, run, fileVars, last, torn, undeleted, rekeyed, faults>>

\* What a run with --stdout prints is left out, and so are the arguments that decide it.
Next ==
    \/ \E client \in Clients \cup {NoClient} :
          \/ \E split \in {"count", "recon"}, target \in Targets, clean \in BOOLEAN :
                Start(client, split, target, clean, FALSE)
          \/ Start(client, "count", NoTarget, FALSE, TRUE)
    \/ RemoveBundles \/ RemoveSchemas \/ RemoveRegistry \/ RemoveStaleDirs
    \/ ResolveVariables \/ WriteShared
    \/ \E c \in Clients : ResolveClient(c)
    \/ WriteSchema \/ WriteBundle \/ WriteScript
    \/ Finish \/ Abort \/ Edit

Spec == Init /\ [][Next]_vars

-----------------------------------------------------------------------------
(* The recon job, as it would start from this tree *)

\* load_pipeline_names, and the clients the notebook reads out of the names.
RegisteredKeys == registry.names
RegisteredClients == {key[1] : key \in RegisteredKeys}

\* The notebook loads and resolves each of them; an error of one ends the job.
Ready(c) == LoadsOverrides(c) /\ Resolve(config.catalog, config.overrides[c]).ok

\* The keys that contain the client's name, those of other clients among them.
KeysFor(c) == {key \in RegisteredKeys : <<c, key[1]>> \in NamePart}

\* A context per client and key of it, each with all tables of the client.
Contexts_ByKey ==
    UNION {{[key |-> key, client |-> key[1],
             tables |-> DOMAIN Resolve(config.catalog, config.overrides[c]).tables]
               : key \in KeysFor(c)} : c \in RegisteredClients}
Contexts ==
    UNION {{[key |-> key, client |-> c,
             tables |-> DOMAIN Resolve(config.catalog, config.overrides[c]).tables]
               : key \in KeysFor(c)} : c \in RegisteredClients}

\* The job's bundle of a client merges the tables of its contexts.
Watched(c) == UNION {ctx.tables : ctx \in {x \in Contexts : x.client = c}}

-----------------------------------------------------------------------------
(* Properties *)

TypeOK ==
    /\ config \in Configs
    /\ pc \in Steps
    /\ run.clients \subseteq Clients /\ run.left \subseteq run.clients
    /\ run.current \in run.clients \cup {NoClient}
    /\ DOMAIN bundle \subseteq Clients /\ DOMAIN refers = DOMAIN bundle
    /\ DOMAIN schemaYml \subseteq Clients /\ metaYml \in BOOLEAN
    /\ registry.written \in BOOLEAN /\ registry.names \subseteq Clients \X Nat
    /\ DOMAIN scripts = ToSet(ScriptKinds)
    /\ \A k \in DOMAIN scripts : DOMAIN scripts[k] \subseteq Clients
    /\ last \in {"none", "unfinished", "partial", "full", "complete"}
    /\ torn \subseteq Clients /\ undeleted \subseteq DOMAIN bundle /\ rekeyed \subseteq Clients
    /\ edits \in 0..MaxEdits /\ faults \in 0..MaxFaults

\* At every moment, whatever run was interrupted where, a pipeline file that was made
\* for the metadata schema's usual name has the schema resources its depends_on and its
\* destination refer to: both are written before it and removed after it.  It is not so
\* once the file could not be removed, nor while the client's schema is being renamed.
SchemaOutlivesBundle ==
    \A c \in DOMAIN bundle \ (undeleted \cup rekeyed) :
        refers[c].metadata = SharedKey => DependsOn(c) \subseteq Schemas

\* Unless the last run that writes files was cut short, a registered name is one of a
\* pipeline in the bundle: the jobs are not sent after pipelines that are not deployed.
RegisteredExists ==
    pc = "idle" /\ last # "unfinished" => registry.names \subseteq Pipelines

\* After a full run every pipeline in the bundle is registered, so none is left without
\* monitor, restart and reconciliation, but for those in files it failed to remove.
FullRunRegistersAll ==
    pc = "idle" /\ last \in {"full", "complete"} =>
        \A c \in DOMAIN bundle \ undeleted : PipelineKeys(c, bundle[c]) \subseteq registry.names

\* A full run that exits with 0 leaves pipelines for the active clients and no others,
\* but for files it failed to remove.
SuccessIsComplete ==
    pc = "idle" /\ last = "complete" /\ ~edited => DOMAIN bundle \ undeleted = config.active

\* The pipelines of a client never share a table and none is empty: Lakeflow
\* would copy a shared table twice, and a pipeline without tables is refused.
PipelinesDisjoint ==
    \A c \in DOMAIN bundle :
        /\ {} \notin {bundle[c][s] : s \in DOMAIN bundle[c]}
        /\ \A s, t \in DOMAIN bundle[c] : s # t => bundle[c][s] \cap bundle[c][t] = {}

\* Whatever is ingested has been prepared on the source: each script lists exactly the
\* tables of the client's pipelines, except for a client whose files a run was cut short
\* in, or whose pipelines it failed to remove.
ScriptsMatchPipelines ==
    \A c \in DOMAIN bundle \ (torn \cup undeleted) : \A k \in DOMAIN scripts :
        c \in DOMAIN scripts[k] /\ scripts[k][c] = TablesOf(bundle[c])

\* For every client, the resolution is what the files declare, entry by entry: which
\* tables, from which row, of which type if the row states one, and when it refuses.
ResolvedAsDeclared ==
    \A c \in Clients : AsDeclared(config.catalog, config.overrides[c])

\* If the files have not been edited since a full run began, the recon job starts and
\* waits, for each registered client, for exactly the tables its pipelines ingest.
WatchesWhatIsIngested ==
    pc = "idle" /\ last \in {"full", "complete"} /\ ~edited =>
        \A c \in RegisteredClients :
            Ready(c) /\ Watched(c) = TablesOf(bundle[c])

\* What README.md says of pipeline_names.json: the list of generated pipelines.
RegistryListsGenerated ==
    pc = "idle" /\ last # "unfinished" => Pipelines \subseteq registry.names

=============================================================================
