----------------------------- MODULE MCGenerate -----------------------------
(* Finite instances of Generate for TLC. *)
EXTENDS Generate

CONSTANTS a, b

\* As with the clients dev1 and dev15: the name of the first is part of the second's.
AInB == {<<a, a>>, <<b, b>>, <<a, b>>}

\* Table 2 is a snapshot, 3 is in the catalog but not active, 4 and 5 are extras.
Common ==
    1 :> [active |-> TRUE, recon |-> 1] @@ 2 :> [active |-> TRUE, recon |-> 1]
    @@ 3 :> [active |-> FALSE, recon |-> 3]

Extra(nm, active) == [nm |-> nm, active |-> active, recon |-> 3]
Untyped(nm) == [nm |-> nm, active |-> TRUE, recon |-> NoReconType]
Ignore(nm, active) == [nm |-> nm, active |-> active]

With(ignore, extra) == [NoOverrides EXCEPT !.ignore = ignore, !.extra = extra]

\* Client a takes no common tables, only what its own file names.
OwnTables == [With({Ignore(1, FALSE)}, <<Extra(1, FALSE), Extra(1, TRUE)>>)
                 EXCEPT !.includeCommon = FALSE]

\* Override files of client b: one with extras that add, replace and withdraw and with
\* ignores that count and that do not; extras that collide; nothing left; and a file that
\* does not validate.
Mixed ==
    With({Ignore(1, TRUE), Ignore(2, FALSE)},
         <<Extra(4, TRUE), Extra(4, FALSE), Untyped(2), Extra(4, TRUE), Extra(5, TRUE),
           Extra(1, FALSE)>>)
Collision == With({}, <<Extra(3, TRUE), Extra(4, FALSE)>>)
NothingLeft == [NoOverrides EXCEPT !.includeCommon = FALSE]
Invalid == [NoOverrides EXCEPT !.valid = FALSE]

Config(active, ov) ==
    [active |-> active, catalog |-> Common, overrides |-> a :> OwnTables @@ b :> ov,
     variables |-> TRUE]

SmallConfigs == {Config({a, b}, ov) : ov \in {NoOverrides, Mixed, Collision}}
                  \cup {Config({a}, Invalid),
                        [Config({a, b}, NothingLeft) EXCEPT !.variables = FALSE]}

\* The bundle's target dev, and a run told another suffix and another name for the
\* metadata schema.
Dev   == [suffix |-> "_poc_1", metadata |-> "ipac_metadata"]
Other == [suffix |-> "-POC1",  metadata |-> "tax_metadata"]

TwoTargets == {Dev, Other}
OneTarget == {Dev}

\* schema_resource_key: lower case, and underscores for hyphens.
Converted == "_poc_1" :> "_poc_1" @@ "-POC1" :> "_poc1"
KeyOfSuffix == [c \in {a, b} |-> [x \in DOMAIN Converted |-> <<c, Converted[x]>>]]
KeyOfName == [n \in {"ipac_metadata", "tax_metadata"} |-> <<"schema", n>>]
Shared == <<"schema", "ipac_metadata">>

OneConfig == {Config({a, b}, NoOverrides)}

=============================================================================
