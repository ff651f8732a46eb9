--------------------------- MODULE TableSelection ---------------------------
(***************************************************************************)
(* Which tables a client ingests, and how they are spread over pipelines:  *)
(* the pure part of generation, also called by the recon notebook when it  *)
(* builds the list of tables it waits for.                                 *)
(*                                                                         *)
(* A table name is a number, numbers being ordered as the names are; a     *)
(* catalog maps the common names to their rows.  Of a row only what        *)
(* decides is kept: is_active and recon_type, NoReconType if it has none.  *)
(***************************************************************************)
EXTENDS Integers, SequencesExt

CONSTANTS
    BatchSize, \* num_of_tables_in_pipeline
    Snapshots  \* the names that contain "snapshot"

ASSUME SelectionAssumption == BatchSize \in Nat \ {0}

NoReconType == 0

ReconTypes == 1..3

\* Rows as they stand in the files.  A catalog maps finitely many names to theirs.
CommonRows == [active : BOOLEAN, recon : ReconTypes \cup {NoReconType}]
ExtraRows == [nm : Nat, active : BOOLEAN, recon : ReconTypes \cup {NoReconType}]
IgnoreRows == [nm : Nat, active : BOOLEAN]

IsCatalog(catalog) ==
    /\ DOMAIN catalog \subseteq Nat /\ IsFiniteSet(DOMAIN catalog)
    /\ catalog \in [DOMAIN catalog -> CommonRows]

OverrideSets == [valid : BOOLEAN, includeCommon : BOOLEAN,
                 ignore : SUBSET IgnoreRows, extra : Seq(ExtraRows)]

\* Tables as the resolution returns them.
TableMap(tables) ==
    /\ DOMAIN tables \subseteq Nat /\ IsFiniteSet(DOMAIN tables)
    /\ \A nm \in DOMAIN tables : tables[nm].recon \in ReconTypes

\* A client without an override file: nothing ignored, nothing extra.
NoOverrides == [valid |-> TRUE, includeCommon |-> TRUE, ignore |-> {}, extra |-> <<>>]

\* The model's validator turns the type of a snapshot table into 2 (count the rows).
\* pydantic does not run it for a field that is absent, which stays at its default, 1,
\* also for a snapshot: against models.py:19, and no declaration says it.
ReconTypeFor(nm, reconType) ==
    CASE reconType = NoReconType -> 1
      [] reconType # NoReconType /\ nm \in Snapshots -> 2
      [] OTHER -> reconType

Effective(nm, source, reconType) ==
    [source |-> source, recon |-> ReconTypeFor(nm, reconType)]

\* Only an ignore entry whose is_active is false takes a table out.
Ignored(ov) == {item.nm : item \in {i \in ov.ignore : ~i.active}}

FromCommon(catalog, ov) ==
    [nm \in {n \in DOMAIN catalog :
                ov.includeCommon /\ n \notin Ignored(ov) /\ catalog[n].active}
        |-> Effective(nm, "common", catalog[nm].recon)]

Collides(catalog, ov, nm) == nm \in DOMAIN catalog /\ nm \notin Ignored(ov)

\* An assignment to an entry of a dictionary.
Put(f, key, value) == [k \in DOMAIN f \cup {key} |-> IF k = key THEN value ELSE f[k]]

\* One entry of "extra", in the order of the file; a collision ends the resolution.
ApplyExtra_FirstWins(catalog, ov, acc, extra) ==
    CASE ~acc.ok \/ extra.nm \in DOMAIN acc.tables -> acc
      [] OTHER -> [acc EXCEPT !.tables =
                     Put(@, extra.nm, Effective(extra.nm, "extra", extra.recon))]
ApplyExtra(catalog, ov, acc, extra) ==
    CASE ~acc.ok -> acc
      [] acc.ok /\ ~extra.active ->
            [acc EXCEPT !.tables = Restrict(@, DOMAIN @ \ {extra.nm})]
      [] acc.ok /\ extra.active /\ Collides(catalog, ov, extra.nm) ->
            [acc EXCEPT !.ok = FALSE]
      [] OTHER ->
            [acc EXCEPT !.tables =
                Put(@, extra.nm, Effective(extra.nm, "extra", extra.recon))]

\* The tables of one client, or ok = FALSE where the code raises ValueError.
Resolve(catalog, ov) ==
    LET merged == FoldLeft(LAMBDA acc, extra : ApplyExtra(catalog, ov, acc, extra),
                           [ok |-> TRUE, tables |-> FromCommon(catalog, ov)], ov.extra)
    IN  [merged EXCEPT !.ok = @ /\ DOMAIN merged.tables # {}]

-----------------------------------------------------------------------------
(* Pipelines: a function from the serial in the pipeline's name to its tables. *)

\* The index of a name in sorted order, from 0.
Rank(tables, nm) == Cardinality({n \in DOMAIN tables : n < nm})

\* Slices of BatchSize names in sorted order, numbered from 1; they start at the
\* multiples of BatchSize below the number of names.
CountBatches_Overlap(tables) ==
    LET size == Cardinality(DOMAIN tables)
    IN  [s \in {t \in 1..size : (t - 1) * BatchSize < size} |->
            {nm \in DOMAIN tables : Rank(tables, nm) \in (s - 1) * BatchSize .. s * BatchSize}]
CountBatches_FullOnly(tables) ==
    LET size == Cardinality(DOMAIN tables)
    IN  [s \in {t \in 1..size : t * BatchSize <= size} |->
            {nm \in DOMAIN tables : Rank(tables, nm) \in (s - 1) * BatchSize .. s * BatchSize - 1}]
CountBatches(tables) ==
    LET size == Cardinality(DOMAIN tables)
    IN  [s \in {t \in 1..size : (t - 1) * BatchSize < size} |->
            {nm \in DOMAIN tables : Rank(tables, nm) \in (s - 1) * BatchSize .. s * BatchSize - 1}]

\* One pipeline per recon_type, which is also its serial.
ReconBatches(tables) ==
    [r \in {tables[nm].recon : nm \in DOMAIN tables} |->
        {nm \in DOMAIN tables : tables[nm].recon = r}]

SplitTables(tables, mode) ==
    IF mode = "recon" THEN ReconBatches(tables) ELSE CountBatches(tables)

\* p_<client>_<serial>; normalising such a key gives the key itself.
PipelineKey(c, serial) == <<c, serial>>

PipelineKeys(c, batches) == {PipelineKey(c, s) : s \in DOMAIN batches}

-----------------------------------------------------------------------------
(* What the configuration files declare, against which Resolve is checked. *)

\* The last entry for a name wins over earlier ones and over the common row; without
\* an entry the common row counts, if it is active and not ignored.
Entries(ov, nm) == {i \in DOMAIN ov.extra : ov.extra[i].nm = nm}

Kept(ov, nm) == ov.includeCommon /\ \A i \in ov.ignore : i.nm = nm => i.active

Declared(catalog, ov, nm) ==
    IF Entries(ov, nm) # {} THEN ov.extra[Max(Entries(ov, nm))].active
    ELSE nm \in DOMAIN catalog /\ catalog[nm].active /\ Kept(ov, nm)

DeclaredType(catalog, ov, nm) ==
    IF Entries(ov, nm) # {} THEN ov.extra[Max(Entries(ov, nm))].recon ELSE catalog[nm].recon

\* No table may be both common and extra unless the client ignores the common one.
Ambiguous(catalog, ov) ==
    \E i \in DOMAIN ov.extra :
        LET nm == ov.extra[i].nm
        IN  ov.extra[i].active /\ nm \in DOMAIN catalog
            /\ \A item \in ov.ignore : item.nm = nm => item.active

NamesOf(catalog, ov) == DOMAIN catalog \cup {ov.extra[i].nm : i \in DOMAIN ov.extra}

\* The resolution is what the files declare, entry by entry: which tables, from which
\* row, of which type where the row states one, and when it refuses: if an active entry
\* names a common table that is not ignored, or if no table is left.
AsDeclared(catalog, ov) ==
    LET res    == Resolve(catalog, ov)
        wanted == {nm \in NamesOf(catalog, ov) : Declared(catalog, ov, nm)}
    IN  /\ res.ok <=> ~Ambiguous(catalog, ov) /\ wanted # {}
        /\ res.ok => /\ DOMAIN res.tables = wanted
                     /\ \A nm \in wanted :
                        LET stated == DeclaredType(catalog, ov, nm)
                        IN  stated # NoReconType =>
                                res.tables[nm].recon = IF nm \in Snapshots THEN 2 ELSE stated

=============================================================================
