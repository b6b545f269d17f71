---------------------------- MODULE MCIngestion ----------------------------
(* Instances of Ingestion for TLC. *)
EXTENDS Ingestion, TLC

CONSTANTS vacancy1, vacancy2, vacancy3, vacancy4, acme, globex, globexInc, go, x1,
          cDeveloper, goDeveloper, tester, dated, named, aliased, clashing

\* "dated" and "named" advertise vacancies of a company that is new; "named" has
\* an external id and a skill.  "aliased" has no date, and a name that is an alias
\* of a known company.  "clashing" has no date either, and the label of "dated": they
\* may be a "C++ Developer" and a "C# Developer".
Items == {dated, named, aliased, clashing}
Jobs == (dated :> vacancy1) @@ (named :> vacancy2) @@ (aliased :> vacancy3) @@ (clashing :> vacancy4)
Names == [i \in Items |-> IF i = aliased THEN globexInc ELSE acme]
Companies == [i \in Items |-> IF i = aliased THEN globex ELSE acme]
Skills == [i \in Items |-> IF i = named THEN go ELSE None]
Exts == [i \in Items |-> IF i = named THEN x1 ELSE None]
Labels == [i \in Items |-> CASE i = named -> goDeveloper [] i = aliased -> tester [] OTHER -> cDeveloper]
Dates == [i \in Items |-> IF i \in {dated, named} THEN 1 ELSE None]

OneOrTwo == {<<dated, named>>, <<aliased>>, <<clashing>>}
NamedOnly == {<<named>>}
=============================================================================
