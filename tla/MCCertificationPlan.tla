------------------------ MODULE MCCertificationPlan ------------------------
(***************************************************************************)
(* The targets with the platforms they stand for, staging documents, and a *)
(* fixture that is in the repository or missing.  A staging document has   *)
(* remote files staged or not, at an allowed host or elsewhere, declared   *)
(* to be one of the public shapes, an exact copy or nothing.               *)
(***************************************************************************)
EXTENDS CertificationPlan

MCTargets ==
    {<<"azure", "azure_sql_db">>} \cup {<<"vm", platform>> : platform \in SqlServer}

MCStagings ==
    [remote : {"nowhere", "here", "elsewhere"}, engine_local : {"nowhere", "path"},
     hosts : {{}, {"here"}}, shape : DOMAIN PUBLIC_SHAPES \cup {"none"},
     exact : {"no", "verified", "stale"}]

MCPlan(t, s, missing) ==
    [target |-> t[1], platform |-> t[2], staging |-> s, missing |-> missing]

\* A fixture is missing together with each document of an open list of hosts.
MCPlans ==
    {MCPlan(t, s, {}) : t \in MCTargets, s \in MCStagings}
    \cup {MCPlan(t, s, {"csv_scalar"}) :
            t \in MCTargets, s \in {x \in MCStagings : x.hosts = {} /\ x.exact = "no"}}

\* A customer's table and the objects the generator names by default.
MCProhibited ==
    {Object("table", <<"dbo", <<"csv_scalar">>>>, [type |-> "rows"]),
     Object("format", <<"ff_", "csv", "_format">>, [type |-> "DELIMITEDTEXT"])}

\* They are not the run's, as the theorem on READY cells has it.
ASSUME MCProhibitedAssumption == \A o \in MCProhibited : ~IsOwn(o)

=============================================================================
