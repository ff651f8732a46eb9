------------------------ MODULE SourceSetup_proofs ------------------------
(***************************************************************************)
(* Proofs about SourceSetup, for any set of tables and any number of       *)
(* sessions, breaks and schema changes.                                    *)
(***************************************************************************)
EXTENDS SourceSetup, TLAPS

\* As long as nothing has changed under it, a script has done its work on the tables
\* its cursor has passed; a grant whose start followed an enable finds them tracked.
EnableWorks ==
    /\ "enable" \in undisturbed => Preparable \ left["enable"] \subseteq tracked
    /\ "enable" \in done => Preparable \subseteq tracked

GrantWorks ==
    /\ "grantCt" \in undisturbed =>
          "enable" \in done /\ Preparable \ left["grantCt"] \subseteq ctGrant
    /\ "grantCt" \in done => Preparable \subseteq ctGrant

IInv == TypeOK /\ EnableWorks /\ GrantWorks

LEMMA InitInv == Init => IInv
<1> SUFFICES ASSUME Init PROVE IInv
    OBVIOUS
<1>1. TypeOK
  <2>1. dbCt \in BOOLEAN /\ user \in BOOLEAN /\ left \in [Scripts -> SUBSET Tables]
      BY DEF Init
  <2>2. ddls \in 0..MaxDdl /\ lists \in 0..MaxLists /\ stops \in 0..MaxStops
      BY SetupAssumption DEF Init
  <2> QED
      BY <2>1, <2>2 DEF Init, TypeOK
<1>2. EnableWorks /\ GrantWorks
    BY DEF Init, EnableWorks, GrantWorks
<1> QED
    BY <1>1, <1>2 DEF IInv

-----------------------------------------------------------------------------
(* The scripts *)

LEMMA StartEnableKeeps ==
    ASSUME IInv, StartEnable
    PROVE  IInv'
<1>1. TypeOK'
    BY SetupAssumption DEF IInv, TypeOK, StartEnable, Begin, Scripts, schemaVars, boundVars
<1>2. EnableWorks'
    BY SetupAssumption DEF IInv, TypeOK, EnableWorks, StartEnable, Begin, Preparable,
        Scripts, schemaVars
<1>3. GrantWorks'
    BY SetupAssumption DEF IInv, GrantWorks, StartEnable, Begin, Preparable, schemaVars
<1> QED
    BY <1>1, <1>2, <1>3 DEF IInv

LEMMA EnableTableKeeps ==
    ASSUME IInv, NEW t \in Tables, EnableTable(t)
    PROVE  IInv'
<1>1. TypeOK'
    BY SetupAssumption DEF IInv, TypeOK, EnableTable, Advance, schemaVars, boundVars
<1>2. EnableWorks'
    BY SetupAssumption DEF IInv, TypeOK, EnableWorks, EnableTable, Advance, Preparable,
        schemaVars
<1>3. GrantWorks'
    BY SetupAssumption DEF IInv, GrantWorks, EnableTable, Advance, Preparable, schemaVars
<1> QED
    BY <1>1, <1>2, <1>3 DEF IInv

LEMMA StartGrantCtKeeps ==
    ASSUME IInv, StartGrantCt
    PROVE  IInv'
<1>1. TypeOK'
    BY SetupAssumption DEF IInv, TypeOK, StartGrantCt, EnsureUser, Begin, Scripts,
        schemaVars, boundVars
<1>2. EnableWorks'
    BY SetupAssumption DEF IInv, EnableWorks, StartGrantCt, Begin, Preparable, schemaVars
<1>3. GrantWorks'
    BY SetupAssumption DEF IInv, TypeOK, GrantWorks, StartGrantCt, Begin, Preparable,
        Scripts, schemaVars
<1> QED
    BY <1>1, <1>2, <1>3 DEF IInv

LEMMA GrantCtTableKeeps ==
    ASSUME IInv, NEW t \in Tables, GrantCtTable(t)
    PROVE  IInv'
<1>1. TypeOK'
    BY SetupAssumption DEF IInv, TypeOK, GrantCtTable, Advance, schemaVars, boundVars
<1>2. EnableWorks'
    BY SetupAssumption DEF IInv, EnableWorks, GrantCtTable, Advance, Preparable, schemaVars
<1>3. GrantWorks'
    BY SetupAssumption DEF IInv, TypeOK, EnableWorks, GrantWorks, GrantCtTable, Advance,
        Preparable, schemaVars
<1> QED
    BY <1>1, <1>2, <1>3 DEF IInv

LEMMA StartGrantCdcKeeps ==
    ASSUME IInv, StartGrantCdc
    PROVE  IInv'
<1>1. TypeOK'
    BY SetupAssumption DEF IInv, TypeOK, StartGrantCdc, EnsureUser, Begin, Scripts,
        schemaVars, boundVars
<1>2. EnableWorks'
    BY SetupAssumption DEF IInv, EnableWorks, StartGrantCdc, Begin, Preparable, schemaVars
<1>3. GrantWorks'
    BY SetupAssumption DEF IInv, GrantWorks, StartGrantCdc, Begin, Preparable, schemaVars
<1> QED
    BY <1>1, <1>2, <1>3 DEF IInv

LEMMA GrantCdcTableKeeps ==
    ASSUME IInv, NEW t \in Tables, GrantCdcTable(t)
    PROVE  IInv'
<1>1. TypeOK'
    BY SetupAssumption DEF IInv, TypeOK, GrantCdcTable, Advance, schemaVars, boundVars
<1>2. EnableWorks'
    BY SetupAssumption DEF IInv, EnableWorks, GrantCdcTable, Advance, Preparable, schemaVars
<1>3. GrantWorks'
    BY SetupAssumption DEF IInv, GrantWorks, GrantCdcTable, Advance, Preparable, schemaVars
<1> QED
    BY <1>1, <1>2, <1>3 DEF IInv

LEMMA EndKeeps ==
    ASSUME IInv, NEW k \in Scripts, End(k)
    PROVE  IInv'
<1>1. TypeOK'
    BY SetupAssumption DEF IInv, TypeOK, End, dbVars, schemaVars, boundVars
<1>2. EnableWorks'
    BY SetupAssumption DEF IInv, EnableWorks, End, Preparable, dbVars, schemaVars
<1>3. GrantWorks'
    BY SetupAssumption DEF IInv, GrantWorks, End, Preparable, dbVars, schemaVars
<1> QED
    BY <1>1, <1>2, <1>3 DEF IInv

LEMMA BreakOffKeeps ==
    ASSUME IInv, NEW k \in Scripts, BreakOff(k)
    PROVE  IInv'
<1>1. TypeOK'
    BY SetupAssumption DEF IInv, TypeOK, BreakOff, dbVars, schemaVars
<1>2. EnableWorks'
    BY SetupAssumption DEF IInv, EnableWorks, BreakOff, Preparable, dbVars, schemaVars
<1>3. GrantWorks'
    BY SetupAssumption DEF IInv, GrantWorks, BreakOff, Preparable, dbVars, schemaVars
<1> QED
    BY <1>1, <1>2, <1>3 DEF IInv

-----------------------------------------------------------------------------
(* What happens around them *)

LEMMA CreateTableKeeps ==
    ASSUME IInv, NEW t \in Tables, CreateTable(t)
    PROVE  IInv'
<1>1. TypeOK'
    BY SetupAssumption DEF IInv, TypeOK, CreateTable, Ddl, Disturb, dbVars
<1>2. EnableWorks'
    BY SetupAssumption DEF EnableWorks, CreateTable, Ddl, Disturb
<1>3. GrantWorks'
    BY SetupAssumption DEF GrantWorks, CreateTable, Ddl, Disturb
<1> QED
    BY <1>1, <1>2, <1>3 DEF IInv

LEMMA DropTableKeeps ==
    ASSUME IInv, NEW t \in Tables, DropTable(t)
    PROVE  IInv'
<1>1. TypeOK'
    BY SetupAssumption DEF IInv, TypeOK, DropTable, Ddl, Disturb
<1>2. EnableWorks'
    BY SetupAssumption DEF EnableWorks, DropTable, Ddl, Disturb
<1>3. GrantWorks'
    BY SetupAssumption DEF GrantWorks, DropTable, Ddl, Disturb
<1> QED
    BY <1>1, <1>2, <1>3 DEF IInv

LEMMA AddPkKeeps ==
    ASSUME IInv, NEW t \in Tables, AddPk(t)
    PROVE  IInv'
<1>1. TypeOK'
    BY SetupAssumption DEF IInv, TypeOK, AddPk, Ddl, Disturb, dbVars
<1>2. EnableWorks'
    BY SetupAssumption DEF EnableWorks, AddPk, Ddl, Disturb
<1>3. GrantWorks'
    BY SetupAssumption DEF GrantWorks, AddPk, Ddl, Disturb
<1> QED
    BY <1>1, <1>2, <1>3 DEF IInv

LEMMA CaptureTableKeeps ==
    ASSUME IInv, NEW t \in Tables, CaptureTable(t)
    PROVE  IInv'
<1>1. TypeOK'
    BY SetupAssumption DEF IInv, TypeOK, CaptureTable, Ddl, Disturb, dbVars
<1>2. EnableWorks'
    BY SetupAssumption DEF EnableWorks, CaptureTable, Ddl, Disturb
<1>3. GrantWorks'
    BY SetupAssumption DEF GrantWorks, CaptureTable, Ddl, Disturb
<1> QED
    BY <1>1, <1>2, <1>3 DEF IInv

LEMMA RewriteKeeps ==
    ASSUME IInv, Rewrite
    PROVE  IInv'
<1>1. TypeOK'
    BY SetupAssumption DEF IInv, TypeOK, Rewrite, Disturb, dbVars, schemaVars
<1>2. EnableWorks'
    BY SetupAssumption DEF EnableWorks, Rewrite, Disturb
<1>3. GrantWorks'
    BY SetupAssumption DEF GrantWorks, Rewrite, Disturb
<1> QED
    BY <1>1, <1>2, <1>3 DEF IInv

-----------------------------------------------------------------------------

LEMMA StepInv == IInv /\ [Next]_vars => IInv'
<1> SUFFICES ASSUME IInv, [Next]_vars PROVE IInv'
    OBVIOUS
<1>1. CASE UNCHANGED vars
    BY <1>1 DEF IInv, TypeOK, EnableWorks, GrantWorks, Preparable, vars, schemaVars, dbVars,
        sessionVars, boundVars
<1>2. CASE StartEnable \/ StartGrantCt \/ StartGrantCdc
    BY <1>2, StartEnableKeeps, StartGrantCtKeeps, StartGrantCdcKeeps
<1>3. CASE Session
    BY <1>3, EnableTableKeeps, GrantCtTableKeeps, GrantCdcTableKeeps, EndKeeps DEF Session
<1>4. CASE \E k \in Scripts : BreakOff(k)
    BY <1>4, BreakOffKeeps
<1>5. CASE \E t \in Tables : CreateTable(t) \/ DropTable(t) \/ AddPk(t) \/ CaptureTable(t)
    BY <1>5, CreateTableKeeps, DropTableKeeps, AddPkKeeps, CaptureTableKeeps
<1>6. CASE Rewrite
    BY <1>6, RewriteKeeps
<1> QED
    BY <1>1, <1>2, <1>3, <1>4, <1>5, <1>6 DEF Next

LEMMA AlwaysInv == Spec => []IInv
    BY InitInv, StepInv, PTL DEF Spec

\* The permissions, the tracking and the keys of a table come and go together.
THEOREM TypesHold == Spec => []TypeOK
    BY AlwaysInv, PTL DEF IInv

\* enable_ct.sql, then grant_ct_access.sql, each run through with nothing changing under
\* it: the reader can count the changes of every listed table that has a key.
THEOREM PreparedTablesReadable == Spec => []PreparedIsReadable
<1>1. IInv => PreparedIsReadable
    BY DEF IInv, EnableWorks, GrantWorks, PreparedIsReadable, CanCount
<1> QED
    BY <1>1, AlwaysInv, PTL

\* After those two runs an empty "Problems only" result of active_tables_pk_ct_status.sql
\* says exactly that the recon job's query works.
THEOREM ReportIsRight == Spec => []ReportDecides
<1>1. IInv => ReportDecides
  <2> SUFFICES ASSUME IInv, {"enable", "grantCt"} \subseteq done
               PROVE  Problems = {} <=> CanCount(list)
      BY DEF ReportDecides
  <2>1. \A t \in list : Status(t) = "CT_OK" <=> t \in tracked
      BY DEF IInv, TypeOK, Status
  <2>2. Preparable \subseteq ctGrant
      BY DEF IInv, GrantWorks
  <2>3. tracked \subseteq hasPk
      BY DEF IInv, TypeOK
  <2> QED
      BY <2>1, <2>2, <2>3 DEF Problems, CanCount, Preparable
<1> QED
    BY <1>1, AlwaysInv, PTL

=============================================================================
