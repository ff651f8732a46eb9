---------------------------- MODULE SourceSetup ----------------------------
(***************************************************************************)
(* The generated scripts that prepare a client database: one turns Change  *)
(* Tracking on, one grants the reader what tracking needs, one what CDC    *)
(* needs, one reports the state.                                           *)
(*                                                                         *)
(* An administrator runs them by hand, in any order, in several sessions   *)
(* at once, again after a session broke off; each walks the tables it      *)
(* lists one statement at a time and skips what is not ready.  The         *)
(* application changes its schema meanwhile, and generate rewrites the     *)
(* scripts when the configuration changes.  The recon job counts changes   *)
(* of all its tables in one query, so one table it cannot read blinds it.  *)
(***************************************************************************)
EXTENDS Integers, FiniteSets

CONSTANTS
    Tables,     \* names a script may list, ordered as numbers
    LoginKnown, \* the name put in for <KEEP_USER_ID> is a login of the server
    MaxDdl,     \* bound on changes of the application's schema
    MaxLists,   \* bound on rewritten scripts
    MaxStops    \* bound on sessions that break off

ASSUME SetupAssumption ==
    /\ Tables \subseteq Nat /\ IsFiniteSet(Tables)
    /\ LoginKnown \in BOOLEAN
    /\ MaxDdl \in Nat /\ MaxLists \in Nat /\ MaxStops \in Nat

VARIABLES
    present,  \* tables of the schema
    hasPk,    \* those with a primary key
    cdc,      \* those CDC captures, which no script sees to
    dbCt,     \* Change Tracking is on for the database
    tracked,  \* ... and for these tables
    user,     \* the principal is a user of the database
    ctGrant,  \* tables it may SELECT from and view the tracking of
    cdcGrant, \* tables it may SELECT from, with their change tables
    list,     \* the tables the scripts on disk list
    running,  \* scripts under way
    left,     \* the tables a running script has yet to visit
    undisturbed, \* history: running scripts since whose start nothing changed under them
    done,        \* history: scripts that have ended undisturbed, in their order
    ddls, lists, stops

schemaVars  == <<present, hasPk, cdc>>
dbVars      == <<dbCt, tracked, user, ctGrant, cdcGrant>>
sessionVars == <<running, left, undisturbed, done>>
boundVars   == <<ddls, lists, stops>>
vars == <<schemaVars, dbVars, list, sessionVars, boundVars>>

Scripts == {"enable", "grantCt", "grantCdc"}

TypeOK ==
    /\ present \in SUBSET Tables
    /\ hasPk \in SUBSET present /\ cdc \in SUBSET present
    /\ dbCt \in BOOLEAN /\ tracked \in SUBSET hasPk
    /\ user \in BOOLEAN
    /\ ctGrant \in SUBSET tracked /\ cdcGrant \in SUBSET present
    /\ list \in SUBSET Tables
    /\ running \in SUBSET Scripts
    /\ left \in [Scripts -> SUBSET Tables]
    /\ undisturbed \in SUBSET running /\ done \in SUBSET Scripts
    /\ ddls \in 0..MaxDdl /\ lists \in 0..MaxLists /\ stops \in 0..MaxStops

Init ==
    /\ present \in SUBSET Tables /\ hasPk \in SUBSET present /\ cdc = {}
    /\ dbCt = FALSE /\ tracked = {}
    /\ user \in BOOLEAN /\ ctGrant = {} /\ cdcGrant = {}
    /\ list \in SUBSET Tables \ {{}}
    /\ running = {} /\ left = [k \in Scripts |-> {}]
    /\ undisturbed = {} /\ done = {}
    /\ ddls = 0 /\ lists = 0 /\ stops = 0

-----------------------------------------------------------------------------
(* The scripts *)

\* #table_list is filled from the names in the script; the cursor visits it in order.
Begin(k) ==
    /\ k \notin running
    /\ running' = running \cup {k} /\ left' = [left EXCEPT ![k] = list]

At(k, t) == k \in running /\ t \in left[k] /\ \A s \in left[k] : t <= s

Advance_FetchesTwice(k, t) ==
    left' = [left EXCEPT ![k] = {s \in @ : \E r \in @ : t < r /\ r < s}]
Advance(k, t) == left' = [left EXCEPT ![k] = @ \ {t}]

\* A batch of its own turns tracking on for the database, if it is off.
StartEnable_OnlyOnce ==
    /\ "enable" \notin running
    /\ running' = running \cup {"enable"}
    /\ left' = [left EXCEPT !["enable"] = IF dbCt THEN {} ELSE list]
    /\ dbCt' = TRUE
    /\ undisturbed' = undisturbed \cup {"enable"}
    /\ UNCHANGED <<schemaVars, tracked, user, ctGrant, cdcGrant, list, done, boundVars>>
StartEnable ==
    /\ Begin("enable")
    /\ dbCt' = TRUE
    /\ undisturbed' = undisturbed \cup {"enable"}
    /\ UNCHANGED <<schemaVars, tracked, user, ctGrant, cdcGrant, list, done, boundVars>>

\* Missing tables and tables without a key are skipped, as are tracked ones.
EnableTable_NoKeyCheck(t) ==
    /\ At("enable", t) /\ Advance("enable", t)
    /\ tracked' = IF t \in present THEN tracked \cup {t} ELSE tracked
    /\ UNCHANGED <<schemaVars, dbCt, user, ctGrant, cdcGrant, list, running,
                   undisturbed, done, boundVars>>
EnableTable(t) ==
    /\ At("enable", t) /\ Advance("enable", t)
    /\ tracked' = IF t \in present /\ t \in hasPk THEN tracked \cup {t} ELSE tracked
    /\ UNCHANGED <<schemaVars, dbCt, user, ctGrant, cdcGrant, list, running,
                   undisturbed, done, boundVars>>

\* A login is made a user; a name that is neither ends the script before any grant.
EnsureUser == (user \/ LoginKnown) /\ user' = TRUE

\* Then VIEW DATABASE STATE, and VIEW CHANGE TRACKING on the schema.
StartGrantCt ==
    /\ EnsureUser /\ Begin("grantCt")
    /\ undisturbed' = IF "enable" \in done THEN undisturbed \cup {"grantCt"} ELSE undisturbed
    /\ UNCHANGED <<schemaVars, dbCt, tracked, ctGrant, cdcGrant, list, done, boundVars>>

\* A table that is not tracked when the cursor comes by is skipped with a message.
GrantCtTable(t) ==
    /\ At("grantCt", t) /\ Advance("grantCt", t)
    /\ ctGrant' = IF t \in present /\ t \in hasPk /\ t \in tracked
                  THEN ctGrant \cup {t} ELSE ctGrant
    /\ UNCHANGED <<schemaVars, dbCt, tracked, user, cdcGrant, list, running,
                   undisturbed, done, boundVars>>

StartGrantCdc ==
    /\ EnsureUser /\ Begin("grantCdc")
    /\ undisturbed' = undisturbed \cup {"grantCdc"}
    /\ UNCHANGED <<schemaVars, dbCt, tracked, ctGrant, cdcGrant, list, done, boundVars>>

\* Only tables without a key that CDC captures (on a database with CDC, where
\* cdc.change_tables exists).
GrantCdcTable(t) ==
    /\ At("grantCdc", t) /\ Advance("grantCdc", t)
    /\ cdcGrant' = IF t \in present /\ t \notin hasPk /\ t \in cdc
                   THEN cdcGrant \cup {t} ELSE cdcGrant
    /\ UNCHANGED <<schemaVars, dbCt, tracked, user, ctGrant, list, running,
                   undisturbed, done, boundVars>>

\* The cursor is through.
End(k) ==
    /\ k \in running /\ left[k] = {}
    /\ running' = running \ {k} /\ undisturbed' = undisturbed \ {k}
    /\ done' = IF k \in undisturbed THEN done \cup {k} ELSE done
    /\ UNCHANGED <<schemaVars, dbVars, list, left, boundVars>>

\* The session breaks off; what its statements did stays.
BreakOff(k) ==
    /\ k \in running /\ stops < MaxStops /\ stops' = stops + 1
    /\ running' = running \ {k} /\ undisturbed' = undisturbed \ {k}
    /\ left' = [left EXCEPT ![k] = {}]
    /\ UNCHANGED <<schemaVars, dbVars, list, done, ddls, lists>>

\* The column pk_ct_status of the report.
Status_NoKeyIsFine(t) ==
    CASE t \notin present -> "MISSING_TABLE"
      [] t \in hasPk /\ t \notin tracked -> "CT_NOT_ENABLED"
      [] OTHER -> "CT_OK"
Status(t) ==
    CASE t \notin present -> "MISSING_TABLE"
      [] t \in present /\ t \notin hasPk -> "NO_PK"
      [] t \in hasPk /\ t \notin tracked -> "CT_NOT_ENABLED"
      [] OTHER -> "CT_OK"

\* "Problems only"
Problems == {t \in list : Status(t) # "CT_OK"}

-----------------------------------------------------------------------------
(* What happens around the scripts (external) *)

Disturb == undisturbed' = {} /\ done' = {}

Ddl == ddls < MaxDdl /\ ddls' = ddls + 1 /\ Disturb

CreateTable(t) ==
    /\ Ddl /\ t \notin present
    /\ present' = present \cup {t}
    /\ hasPk' \in {hasPk, hasPk \cup {t}}
    /\ UNCHANGED <<cdc, dbVars, list, running, left, lists, stops>>

\* Tracking, capture and grants go with the table.
DropTable(t) ==
    /\ Ddl /\ t \in present
    /\ present' = present \ {t} /\ hasPk' = hasPk \ {t} /\ cdc' = cdc \ {t}
    /\ tracked' = tracked \ {t}
    /\ ctGrant' = ctGrant \ {t} /\ cdcGrant' = cdcGrant \ {t}
    /\ UNCHANGED <<dbCt, user, list, running, left, lists, stops>>

AddPk(t) ==
    /\ Ddl /\ t \in present \ hasPk
    /\ hasPk' = hasPk \cup {t}
    /\ UNCHANGED <<present, cdc, dbVars, list, running, left, lists, stops>>

CaptureTable(t) ==
    /\ Ddl /\ t \in present \ cdc
    /\ cdc' = cdc \cup {t}
    /\ UNCHANGED <<present, hasPk, dbVars, list, running, left, lists, stops>>

\* generate has run on another configuration.
Rewrite ==
    /\ lists < MaxLists /\ lists' = lists + 1 /\ Disturb
    /\ list' \in SUBSET Tables \ {{}, list}
    /\ UNCHANGED <<schemaVars, dbVars, running, left, ddls, stops>>

-----------------------------------------------------------------------------

Session ==
    \/ \E t \in Tables : EnableTable(t) \/ GrantCtTable(t) \/ GrantCdcTable(t)
    \/ \E k \in Scripts : End(k)

Next ==
    \/ StartEnable \/ StartGrantCt \/ StartGrantCdc \/ Session
    \/ \E k \in Scripts : BreakOff(k)
    \/ \E t \in Tables : CreateTable(t) \/ DropTable(t) \/ AddPk(t) \/ CaptureTable(t)
    \/ Rewrite

Spec == Init /\ [][Next]_vars

\* A running script goes on; nobody has to start one.
FairSpec == Spec /\ WF_vars(Session)

-----------------------------------------------------------------------------
(* The recon job's view *)

\* fetch_pending_ct_counts_batch asks CHANGETABLE for every table in one statement:
\* each has to be tracked and readable.
CanCount(S) == \A t \in S : t \in tracked /\ t \in ctGrant

Preparable == {t \in list : t \in hasPk}

(* Properties *)

\* Once enable and then grant have run through with nothing changing under them, the
\* reader can count the changes of every listed table that can be tracked at all.
PreparedIsReadable == {"enable", "grantCt"} \subseteq done => CanCount(Preparable)

\* From then on the report decides: the job's query works exactly if it lists no problem.
ReportDecides ==
    {"enable", "grantCt"} \subseteq done => (Problems = {} <=> CanCount(list))

\* The scripts may be run again in any order, at the same time, after a break: as long as
\* both keep being run, every listed table that can be tracked ends up readable.
RetriesConverge ==
    (/\ []<><<StartEnable>>_vars
     /\ []<><<StartGrantCt>>_vars)
        => <>[]CanCount(Preparable)

=============================================================================
