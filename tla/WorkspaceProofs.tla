--------------------------- MODULE WorkspaceProofs ---------------------------
(***************************************************************************)
(* Proofs about the services of Workspace that several people share, each  *)
(* for any number of requests, rows and failures, and then about all of    *)
(* the services side by side.  None of the properties is inductive as it   *)
(* stands.                                                                 *)
(*                                                                         *)
(* Company: posts and names follow their companies because aliases and     *)
(* posts are of companies that are there, a company that is there is its   *)
(* own heir, and the bearer of a name bears it as long as it is there.     *)
(*                                                                         *)
(* Taxonomy: a request that adds skills holds those it is done with, a     *)
(* merge knows the rows of every candidate and a calculation the candidate *)
(* and the stored match, as long as no other step has touched them.  Each  *)
(* of those is carried from step to step by one lemma about what a step of *)
(* another request leaves alone.                                           *)
(*                                                                         *)
(* Conversation: a send commits only when no other transaction has stored  *)
(* a message, so that what can be read comes before what cannot yet, and   *)
(* what is committed follows all of it.                                    *)
(*                                                                         *)
(* Workspace: a step of one service leaves the others' state alone, so the *)
(* conjunction of their invariants is one of the whole.                    *)
(***************************************************************************)
EXTENDS Workspace, CandidateProofs

-----------------------------------------------------------------------------
(* Companies: the invariant *)

\* The tables and the histories are typed.
TablesTyped ==
  /\ company \in [CompanyIds -> CompanyName \cup {Nameless}]
  /\ alias \in [CompanyName -> CompanyIds \cup {NoCompany}]
  /\ post \in [Request -> CompanyIds \cup {NoCompany}]
  /\ created \in 2..MaxCompanies
  /\ heir \in [CompanyIds -> CompanyIds]
  /\ bearer \in [CompanyName -> CompanyIds \cup {NoCompany}]
  /\ strayed \subseteq CompanyName

\* Names are unique, and foreign keys are respected.
Keyed ==
  /\ \A c, d \in CompanyIds : Known(c) /\ company[c] = company[d] => c = d
  /\ \A n \in CompanyName : alias[n] # NoCompany => Known(alias[n])
  /\ \A r \in Request : post[r] # NoCompany => Known(post[r])

\* A company that is there is its own heir; ids that were not used have no company.
OwnHeirs ==
  /\ \A c \in CompanyIds : Known(c) => heir[c] = c
  /\ \A c \in CompanyIds : c > created => ~Known(c) /\ heir[c] = c

\* A company that is there is the bearer of its name and of no other.
Bearing ==
  /\ \A c \in CompanyIds : Known(c) => bearer[company[c]] = c
  /\ \A n \in CompanyName : bearer[n] # NoCompany /\ Known(bearer[n]) => company[bearer[n]] = n
  /\ \A n \in CompanyName : bearer[n] <= created

\* A name whose bearer has been merged is an alias of its heir.
AliasesLead ==
  \A n \in CompanyName \ strayed :
    Named(n) = {} /\ bearer[n] # NoCompany => alias[n] = heir[bearer[n]]

Tables == TablesTyped /\ Keyed /\ OwnHeirs /\ Bearing /\ AliasesLead

\* What the position of a request says about what it has read.
FilePlaceOK(r) ==
  /\ file[r].at \in {"target", "merge"} =>
       /\ file[r].op = "merge" /\ file[r].name \in CompanyName
       /\ file[r].source \in CompanyIds /\ file[r].target \in CompanyIds
       /\ file[r].source # file[r].target
  /\ file[r].at \in {"alias", "found"} => file[r].name \in CompanyName
  /\ file[r].at = "insert" => file[r].source \in CompanyIds

\* A reported post is with its company or that company's heir.
PostOK(r) ==
  FileAt(r, "ok") /\ file[r].op \in {"post", "import"} =>
    /\ file[r].source \in CompanyIds
    /\ post[r] = heir[file[r].source] /\ Known(post[r])

FilePlaces == file \in [Request -> FileRow] /\ \A r \in Request : FilePlaceOK(r) /\ PostOK(r)

CompanyInv == Tables /\ FilePlaces

-----------------------------------------------------------------------------
(* Companies: the constants *)

\* CompanyIdNumbers are positive and no name is the mark of a missing row.
LEMMA CompanyIdNumbers ==
  /\ MaxCompanies \in Nat /\ MaxCompanies >= 2
  /\ \A c \in CompanyIds : c \in Nat /\ c # NoCompany
  /\ \A n \in CompanyName : n # Nameless
BY CompanyAssumption DEF CompanyIds, NoCompany

\* The first two companies are there, the rest is empty.
LEMMA InitCompanyInv == ASSUME CompanyInit PROVE CompanyInv
<1> USE DEF CompanyInit
<1>1. 1 \in CompanyIds /\ 2 \in CompanyIds /\ Acme \in CompanyName /\ Bell \in CompanyName /\ Acme # Bell
  BY CompanyAssumption DEF CompanyIds
<1>2. /\ company[1] = Acme /\ company[2] = Bell
      /\ \A c \in CompanyIds : c # 1 /\ c # 2 => company[c] = Nameless
  BY <1>1
<1>3. /\ bearer[Acme] = 1 /\ bearer[Bell] = 2
      /\ \A n \in CompanyName : n # Acme /\ n # Bell => bearer[n] = NoCompany
  BY <1>1
<1>4. TablesTyped
  <2>1. company \in [CompanyIds -> CompanyName \cup {Nameless}]
    BY <1>1
  <2>2. bearer \in [CompanyName -> CompanyIds \cup {NoCompany}]
    BY <1>1
  <2>3. created \in 2..MaxCompanies
    BY CompanyIdNumbers
  <2> QED
    BY <2>1, <2>2, <2>3 DEF TablesTyped
<1>5. \A c \in CompanyIds : Known(c) <=> c = 1 \/ c = 2
  BY <1>1, <1>2, CompanyIdNumbers DEF Known
<1>6. Keyed
  BY <1>1, <1>2, <1>5, CompanyIdNumbers DEF Keyed, Known
<1>7. OwnHeirs
  BY <1>5, CompanyIdNumbers DEF OwnHeirs
<1>8. Bearing
  BY <1>1, <1>2, <1>3, <1>5, CompanyIdNumbers DEF Bearing, NoCompany
<1>9. AliasesLead
  BY <1>1, <1>2, <1>3 DEF AliasesLead, Named
<1>10. FilePlaces
  BY DEF FilePlaces, FileRow, FilePlaceOK, PostOK, FileAt
<1> QED
  BY <1>4, <1>6, <1>7, <1>8, <1>9, <1>10 DEF CompanyInv, Tables

-----------------------------------------------------------------------------
(* Companies: steps of the tables *)

\* A new company of a name nobody has keeps the tables in order.
LEMMA FoundKeeps ==
  ASSUME Tables, NEW n \in CompanyName, Named(n) = {}, Found(n),
         UNCHANGED <<alias, post, heir, strayed>>
  PROVE  /\ Tables'
         /\ \A c \in CompanyIds : Known(c) => Known(c)'
         /\ created' \in CompanyIds
<1>0. PICK new \in CompanyIds : new = created'
  BY CompanyIdNumbers DEF Tables, TablesTyped, Found, CompanyIds
<1>1. /\ new = created + 1 /\ new \in CompanyIds /\ new \in 2..MaxCompanies /\ new # NoCompany
      /\ created \in Nat
  BY <1>0, CompanyIdNumbers DEF Tables, TablesTyped, Found, CompanyIds, NoCompany
<1>2. /\ company' = [company EXCEPT ![new] = n]
      /\ bearer' = [bearer EXCEPT ![n] = new]
  BY <1>0 DEF Found
<1>3. /\ company'[new] = n /\ \A c \in CompanyIds : c # new => company'[c] = company[c]
      /\ bearer'[n] = new /\ \A m \in CompanyName : m # n => bearer'[m] = bearer[m]
  BY <1>1, <1>2 DEF Tables, TablesTyped
<1>4. TablesTyped'
  <2>1. company' \in [CompanyIds -> CompanyName \cup {Nameless}]
    BY <1>1, <1>2 DEF Tables, TablesTyped
  <2>2. bearer' \in [CompanyName -> CompanyIds \cup {NoCompany}]
    BY <1>1, <1>2 DEF Tables, TablesTyped
  <2> QED
    BY <1>0, <1>1, <2>1, <2>2 DEF Tables, TablesTyped
<1>5. ~Known(new) /\ heir[new] = new
  BY <1>1, CompanyIdNumbers DEF Tables, OwnHeirs
<1>6. \A c \in CompanyIds : /\ c # new => (Known(c)' <=> Known(c))
                            /\ Known(c) => c # new
  BY <1>3, <1>5 DEF Known
<1>7. Known(new)'
  BY <1>3, CompanyIdNumbers DEF Known
<1>8. \A c \in CompanyIds : company[c] # n
  BY DEF Named
<1>9. Keyed'
  <2>1. \A c, d \in CompanyIds : Known(c)' /\ company'[c] = company'[d] => c = d
    BY <1>3, <1>6, <1>8 DEF Tables, Keyed
  <2>2. \A m \in CompanyName : alias[m] # NoCompany => alias[m] \in CompanyIds /\ Known(alias[m])
    BY DEF Tables, TablesTyped, Keyed
  <2>3. \A r \in Request : post[r] # NoCompany => post[r] \in CompanyIds /\ Known(post[r])
    BY DEF Tables, TablesTyped, Keyed
  <2>4. \A c \in CompanyIds : Known(c) => Known(c)'
    BY <1>6, <1>7
  <2> QED
    BY <2>1, <2>2, <2>3, <2>4 DEF Keyed, Known
<1>10. OwnHeirs'
  <2>1. \A c \in CompanyIds : Known(c)' => heir[c] = c
    BY <1>5, <1>6 DEF Tables, OwnHeirs
  <2>2. \A c \in CompanyIds : c > new => c > created /\ c # new
    BY <1>1, CompanyIdNumbers
  <2>3. \A c \in CompanyIds : c > new => ~Known(c)' /\ heir[c] = c
    BY <2>2, <1>6 DEF Tables, OwnHeirs
  <2> QED
    BY <1>0, <2>1, <2>3 DEF OwnHeirs, Known
<1>11. Bearing'
  <2>1. \A c \in CompanyIds : Known(c)' => bearer'[company'[c]] = c
    BY <1>3, <1>6, <1>8, CompanyIdNumbers DEF Tables, TablesTyped, Bearing, Known
  <2>2. \A m \in CompanyName : bearer[m] # new
    BY <1>1, CompanyIdNumbers DEF Tables, Bearing
  <2>3. ASSUME NEW m \in CompanyName, bearer'[m] # NoCompany, company'[bearer'[m]] # Nameless
        PROVE  company'[bearer'[m]] = m
    <3>1. CASE m = n
      BY <3>1, <1>3
    <3>2. CASE m # n
      <4>1. bearer'[m] = bearer[m] /\ bearer[m] \in CompanyIds /\ bearer[m] # new
        BY <2>2, <2>3, <3>2, <1>3 DEF Tables, TablesTyped
      <4> QED
        BY <4>1, <2>3, <1>3 DEF Tables, Bearing, Known
    <3> QED
      BY <3>1, <3>2
  <2>4. ASSUME NEW m \in CompanyName PROVE bearer'[m] <= new
    <3>1. bearer[m] \in Nat /\ bearer[m] <= created /\ bearer'[m] \in {bearer[m], new}
      BY <1>3, CompanyIdNumbers DEF Tables, TablesTyped, Bearing, NoCompany
    <3> QED
      BY <3>1, <1>1
  <2> QED
    BY <1>0, <2>1, <2>3, <2>4 DEF Bearing, Known
<1>12. AliasesLead'
  <2>1. ASSUME NEW m \in CompanyName \ strayed, \A c \in CompanyIds : company'[c] # m,
               bearer'[m] # NoCompany
        PROVE  alias[m] = heir[bearer'[m]]
    <3>1. m # n
      BY <2>1, <1>1, <1>3
    <3>2. Named(m) = {}
      BY <2>1, <1>3, <1>5, CompanyIdNumbers DEF Named, Known
    <3>3. bearer'[m] = bearer[m]
      BY <3>1, <1>3
    <3> QED
      BY <2>1, <3>2, <3>3 DEF Tables, AliasesLead
  <2> QED
    BY <2>1 DEF AliasesLead, Named
<1> QED
  BY <1>0, <1>1, <1>4, <1>6, <1>7, <1>9, <1>10, <1>11, <1>12 DEF Tables

\* A company that takes a name nobody has keeps the tables in order.
LEMMA RenameKeeps ==
  ASSUME Tables, NEW c \in CompanyIds, NEW n \in CompanyName, NEW old \in CompanyName,
         Known(c), Named(n) = {}, company[c] = old,
         company' = [company EXCEPT ![c] = n],
         bearer' = [bearer EXCEPT ![old] = NoCompany, ![n] = c],
         UNCHANGED <<alias, post, created, heir, strayed>>
  PROVE  /\ Tables'
         /\ \A x \in CompanyIds : Known(x) => Known(x)'
<1>1. \A x \in CompanyIds : company[x] # n
  BY DEF Named
<1>2. old # n
  BY <1>1
<1>3. /\ company'[c] = n /\ \A x \in CompanyIds : x # c => company'[x] = company[x]
      /\ bearer'[n] = c /\ bearer'[old] = NoCompany
      /\ \A m \in CompanyName : m # n /\ m # old => bearer'[m] = bearer[m]
  BY <1>2 DEF Tables, TablesTyped
<1>4. \A x \in CompanyIds : Known(x)' <=> Known(x)
  BY <1>3, CompanyIdNumbers DEF Known
<1>5. TablesTyped'
  <2>1. company' \in [CompanyIds -> CompanyName \cup {Nameless}]
    BY DEF Tables, TablesTyped
  <2>2. bearer' \in [CompanyName -> CompanyIds \cup {NoCompany}]
    BY DEF Tables, TablesTyped
  <2> QED
    BY <2>1, <2>2 DEF Tables, TablesTyped
<1>6. Keyed'
  <2>1. \A x, y \in CompanyIds : Known(x)' /\ company'[x] = company'[y] => x = y
    BY <1>1, <1>3, <1>4 DEF Tables, Keyed
  <2>2. /\ \A m \in CompanyName : alias[m] # NoCompany => alias[m] \in CompanyIds /\ Known(alias[m])
        /\ \A r \in Request : post[r] # NoCompany => post[r] \in CompanyIds /\ Known(post[r])
    BY DEF Tables, TablesTyped, Keyed
  <2> QED
    BY <1>4, <2>1, <2>2 DEF Keyed, Known
<1>7. OwnHeirs'
  BY <1>4 DEF Tables, OwnHeirs, Known
<1>8. Bearing'
  <2>1. \A x \in CompanyIds : Known(x)' => bearer'[company'[x]] = x
    <3>1. \A x \in CompanyIds : Known(x) /\ x # c =>
            company[x] \in CompanyName /\ company[x] # n /\ company[x] # old
      BY <1>1 DEF Tables, TablesTyped, Keyed, Known
    <3>2. ASSUME NEW x \in CompanyIds, Known(x), x # c PROVE bearer'[company'[x]] = x
      <4>1. company'[x] = company[x] /\ bearer'[company[x]] = bearer[company[x]]
        BY <1>3, <3>1, <3>2
      <4> QED
        BY <3>2, <4>1 DEF Tables, Bearing
    <3>3. bearer'[company'[c]] = c
      BY <1>3
    <3> QED
      BY <1>4, <3>2, <3>3
  <2>2. ASSUME NEW m \in CompanyName, bearer'[m] # NoCompany, company'[bearer'[m]] # Nameless
        PROVE  company'[bearer'[m]] = m
    <3>1. CASE m = n
      BY <1>3, <3>1
    <3>2. CASE m # n
      <4>1. m # old /\ bearer'[m] = bearer[m] /\ bearer[m] \in CompanyIds
        BY <1>3, <2>2, <3>2 DEF Tables, TablesTyped
      <4>2. bearer[m] # c
        BY <4>1, <2>2 DEF Tables, Bearing, Known
      <4> QED
        BY <4>1, <4>2, <2>2, <1>3 DEF Tables, Bearing, Known
    <3> QED
      BY <3>1, <3>2
  <2>3. ASSUME NEW m \in CompanyName PROVE bearer'[m] <= created
    <3>1. created \in Nat /\ bearer[m] <= created /\ bearer'[m] \in {bearer[m], c, NoCompany} /\ c <= created
      BY <1>3, CompanyIdNumbers DEF Tables, TablesTyped, Bearing, OwnHeirs
    <3> QED
      BY <3>1 DEF NoCompany
  <2> QED
    BY <2>1, <2>2, <2>3 DEF Bearing, Known
<1>9. AliasesLead'
  <2>1. ASSUME NEW m \in CompanyName \ strayed, \A x \in CompanyIds : company'[x] # m,
               bearer'[m] # NoCompany
        PROVE  alias[m] = heir[bearer'[m]]
    <3>1. m # n /\ m # old
      BY <1>3, <2>1
    <3>2. \A x \in CompanyIds : company[x] # m
      BY <1>3, <2>1, <3>1
    <3>3. Named(m) = {}
      BY <3>2 DEF Named
    <3>4. bearer'[m] = bearer[m]
      BY <1>3, <3>1
    <3> QED
      BY <2>1, <3>3, <3>4 DEF Tables, AliasesLead
  <2> QED
    BY <2>1 DEF AliasesLead, Named
<1> QED
  BY <1>4, <1>5, <1>6, <1>7, <1>8, <1>9 DEF Tables

\* A merge that the foreign keys allow keeps the tables in order, and posts
\* stay with the heirs of their companies.
LEMMA MergeKeeps ==
  ASSUME Tables, NEW c \in CompanyIds, NEW d \in CompanyIds, NEW n \in CompanyName, c # d,
         Movable(c, d, n),
         post' = [q \in Request |-> Moved(c, d, post[q])],
         alias' = AliasesAfter(c, d, n),
         company' = [company EXCEPT ![c] = Nameless],
         heir' = IF Known(c) THEN [x \in CompanyIds |-> Moved(c, heir[d], heir[x])] ELSE heir,
         strayed' = strayed \cup Strays(c, d, n),
         UNCHANGED <<created, bearer>>
  PROVE  /\ Tables'
         /\ \A r \in Request, x \in CompanyIds : post[r] = heir[x] /\ Known(post[r]) =>
              post'[r] = heir'[x] /\ Known(post[r])'
<1>1. /\ company'[c] = Nameless
      /\ \A x \in CompanyIds : x # c => company'[x] = company[x]
  BY DEF Tables, TablesTyped
<1>2. \A m \in CompanyName :
        alias'[m] = IF alias[m] = c \/ (alias[m] = NoCompany /\ m = n) THEN d ELSE alias[m]
  BY CompanyIdNumbers DEF AliasesAfter, Moved
<1>3. \A r \in Request : post'[r] = IF post[r] = c THEN d ELSE post[r]
  BY DEF Moved
<1>4. \A x \in CompanyIds : heir'[x] = IF Known(c) /\ heir[x] = c THEN heir[d] ELSE heir[x]
  BY DEF Moved
<1>5. \A m \in CompanyName : m \notin strayed' =>
        m \notin strayed /\ (m = company[c] => m = n /\ alias[m] \in {NoCompany, c, d})
  BY DEF Strays
<1>6. \A x \in CompanyIds : Known(x)' <=> Known(x) /\ x # c
  BY <1>1 DEF Known
<1>7. /\ \A m \in CompanyName : alias[m] # NoCompany => alias[m] \in CompanyIds /\ Known(alias[m])
      /\ \A r \in Request : post[r] # NoCompany => post[r] \in CompanyIds /\ Known(post[r])
  BY DEF Tables, TablesTyped, Keyed
<1>8. Known(d) => heir[d] = d /\ Known(d)'
  BY <1>6 DEF Tables, OwnHeirs
<1>9. /\ \A m \in CompanyName : alias[m] = c \/ (alias[m] = NoCompany /\ m = n) => Known(d)
      /\ \A r \in Request : post[r] = c => Known(d)
  <2>1. \/ Known(d)
        \/ /\ alias[n] # c /\ alias[n] # NoCompany
           /\ \A q \in Request : post[q] # c
           /\ \A m \in CompanyName : alias[m] # c
    BY DEF Movable
  <2> QED
    BY <2>1
<1>10. TablesTyped'
  <2>1. company' \in [CompanyIds -> CompanyName \cup {Nameless}]
    BY DEF Tables, TablesTyped
  <2>2. alias' \in [CompanyName -> CompanyIds \cup {NoCompany}]
    BY DEF Tables, TablesTyped, AliasesAfter, Moved
  <2>3. post' \in [Request -> CompanyIds \cup {NoCompany}]
    BY DEF Tables, TablesTyped, Moved
  <2>4. heir' \in [CompanyIds -> CompanyIds]
    BY DEF Tables, TablesTyped, Moved
  <2>5. strayed' \subseteq CompanyName /\ created' \in 2..MaxCompanies
        /\ bearer' \in [CompanyName -> CompanyIds \cup {NoCompany}]
    BY DEF Tables, TablesTyped, Strays
  <2> QED
    BY <2>1, <2>2, <2>3, <2>4, <2>5 DEF TablesTyped
<1>11. Keyed'
  <2>1. \A x, y \in CompanyIds : Known(x)' /\ company'[x] = company'[y] => x = y
    BY <1>1, <1>6 DEF Tables, Keyed, Known
  <2>2. \A m \in CompanyName : alias'[m] # NoCompany => company'[alias'[m]] # Nameless
    BY <1>2, <1>6, <1>7, <1>8, <1>9 DEF Known
  <2>3. \A r \in Request : post'[r] # NoCompany => company'[post'[r]] # Nameless
    BY <1>3, <1>6, <1>7, <1>8, <1>9 DEF Known
  <2> QED
    BY <2>1, <2>2, <2>3 DEF Keyed, Known
<1>12. OwnHeirs'
  <2>1. \A x \in CompanyIds : Known(x)' => heir'[x] = x
    BY <1>4, <1>6 DEF Tables, OwnHeirs
  <2>2. \A x \in CompanyIds : x > created => ~Known(x)' /\ heir'[x] = x
    BY <1>4, <1>6 DEF Tables, OwnHeirs
  <2> QED
    BY <2>1, <2>2 DEF OwnHeirs, Known
<1>13. Bearing'
  <2>1. \A x \in CompanyIds : Known(x)' => bearer[company'[x]] = x
    BY <1>1, <1>6 DEF Tables, Bearing
  <2>2. ASSUME NEW m \in CompanyName, bearer[m] # NoCompany, company'[bearer[m]] # Nameless
        PROVE  company'[bearer[m]] = m
    <3>1. bearer[m] \in CompanyIds
      BY <2>2 DEF Tables, TablesTyped
    <3> QED
      BY <2>2, <3>1, <1>1 DEF Tables, Bearing, Known
  <2> QED
    BY <2>1, <2>2 DEF Tables, Bearing, Known
<1>14. AliasesLead'
  <2>1. ASSUME NEW m \in CompanyName, m \notin strayed', \A x \in CompanyIds : company'[x] # m,
               bearer[m] # NoCompany
        PROVE  alias'[m] = heir'[bearer[m]]
    <3>1. bearer[m] \in CompanyIds /\ m # Nameless /\ m \notin strayed
      BY <2>1, <1>5, CompanyIdNumbers DEF Tables, TablesTyped
    <3>2. CASE company[c] = m
      <4>1. Known(c) /\ bearer[m] = c /\ heir[c] = c
        BY <3>1, <3>2 DEF Tables, Bearing, OwnHeirs, Known
      <4>2. m = n /\ alias[m] \in {NoCompany, c, d}
        BY <2>1, <3>2, <1>5
      <4>3. Known(d)
        BY <4>2, <1>7, <1>9, CompanyIdNumbers
      <4>4. alias'[m] = d
        BY <4>2, <1>2
      <4> QED
        BY <4>1, <4>3, <4>4, <1>4, <1>8
    <3>3. CASE company[c] # m
      <4>1. Named(m) = {}
        BY <2>1, <3>3, <1>1 DEF Named
      <4>2. alias[m] = heir[bearer[m]] /\ alias[m] # NoCompany
        BY <2>1, <3>1, <4>1, CompanyIdNumbers DEF Tables, AliasesLead, TablesTyped
      <4>3. CASE alias[m] = c
        BY <4>2, <4>3, <3>1, <1>2, <1>4, <1>7, <1>8, <1>9
      <4>4. CASE alias[m] # c
        BY <4>2, <4>4, <3>1, <1>2, <1>4
      <4> QED
        BY <4>3, <4>4
    <3> QED
      BY <3>2, <3>3
  <2> QED
    BY <2>1 DEF AliasesLead, Named
<1>15. ASSUME NEW r \in Request, NEW x \in CompanyIds, post[r] = heir[x], Known(post[r])
       PROVE  post'[r] = heir'[x] /\ company'[post'[r]] # Nameless
  <2>1. heir[x] \in CompanyIds
    BY DEF Tables, TablesTyped
  <2>2. CASE post[r] = c
    BY <1>15, <2>2, <1>3, <1>4, <1>8, <1>9 DEF Known
  <2>3. CASE post[r] # c
    BY <1>15, <2>1, <2>3, <1>3, <1>4, <1>6 DEF Known
  <2> QED
    BY <2>2, <2>3
<1> QED
  BY <1>10, <1>11, <1>12, <1>13, <1>14, <1>15 DEF Tables, Known
-----------------------------------------------------------------------------
(* Companies: steps of the requests *)

\* A step of one request that leaves the tables alone, keeps what is known
\* about the others, and is itself where it may be.
LEMMA FilePlacesRest ==
  ASSUME FilePlaces, NEW r \in Request,
         file' \in [Request -> FileRow],
         \A q \in Request : q # r => file'[q] = file[q],
         FilePlaceOK(r)', PostOK(r)',
         \A q \in Request, x \in CompanyIds : q # r /\ post[q] = heir[x] /\ Known(post[q]) =>
           post'[q] = heir'[x] /\ Known(post[q])'
  PROVE  FilePlaces'
<1>1. ASSUME NEW q \in Request, q # r PROVE FilePlaceOK(q)'
  BY <1>1 DEF FilePlaces, FilePlaceOK
<1>2. ASSUME NEW q \in Request, q # r PROVE PostOK(q)'
  <2>1. file'[q] = file[q] /\ PostOK(q)
    BY <1>2 DEF FilePlaces
  <2> QED
    BY <1>2, <2>1 DEF PostOK, FileAt
<1> QED
  BY <1>1, <1>2 DEF FilePlaces

\* Reading changes no table.
LEMMA TablesRest ==
  ASSUME Tables, UNCHANGED <<company, alias, post, created, heir, bearer, strayed>>
  PROVE  /\ Tables'
         /\ \A q \in Request, x \in CompanyIds : post[q] = heir[x] /\ Known(post[q]) =>
              post'[q] = heir'[x] /\ Known(post[q])'
<1>1. TablesTyped' /\ Keyed' /\ OwnHeirs'
  BY DEF Tables, TablesTyped, Keyed, OwnHeirs, Known
<1>2. Bearing'
  BY DEF Tables, Bearing, Known
<1>3. AliasesLead'
  BY DEF Tables, AliasesLead, Named
<1> QED
  BY <1>1, <1>2, <1>3 DEF Tables, Known
\* Moving a request on changes its position only.
LEMMA FileMoves ==
  ASSUME file \in [Request -> FileRow], NEW r \in Request,
         NEW at \in {"target", "merge", "found", "insert", "ok", "refused", "failed"},
         FileTo(r, at)
  PROVE  /\ file' \in [Request -> FileRow]
         /\ \A q \in Request : q # r => file'[q] = file[q]
         /\ file'[r].at = at /\ file'[r].op = file[r].op /\ file'[r].name = file[r].name
         /\ file'[r].source = file[r].source /\ file'[r].target = file[r].target
<1>1. file[r] \in FileRow
  OBVIOUS
<1>2. file' = [file EXCEPT ![r] = [@ EXCEPT !.at = at]]
  BY DEF FileTo
<1>3. [file[r] EXCEPT !.at = at] \in FileRow
  BY <1>1 DEF FileRow
<1> QED
  BY <1>1, <1>2, <1>3 DEF FileRow

\* A step that changes no table and moves its request keeps the invariant when
\* it leaves the request where it may be.
LEMMA ReadKeeps ==
  ASSUME CompanyInv, NEW r \in Request, file' \in [Request -> FileRow],
         \A q \in Request : q # r => file'[q] = file[q],
         FilePlaceOK(r)', file'[r].at # "ok" \/ file'[r].op \notin {"post", "import"},
         UNCHANGED <<company, alias, post, created, heir, bearer, strayed>>
  PROVE  CompanyInv'
<1>1. Tables' /\ \A q \in Request, x \in CompanyIds : post[q] = heir[x] /\ Known(post[q]) =>
                   post'[q] = heir'[x] /\ Known(post[q])'
  BY TablesRest DEF CompanyInv
<1>2. PostOK(r)'
  BY DEF PostOK, FileAt
<1> QED
  BY <1>1, <1>2, FilePlacesRest DEF CompanyInv

\* A new company, wherever its request goes, keeps the invariant.
LEMMA NewKeeps ==
  ASSUME CompanyInv, NEW r \in Request, NEW n \in CompanyName, Named(n) = {}, Found(n),
         file' \in [Request -> FileRow],
         \A q \in Request : q # r => file'[q] = file[q],
         FilePlaceOK(r)', file'[r].at # "ok" \/ file'[r].op \notin {"post", "import"},
         UNCHANGED <<alias, post, heir, strayed>>
  PROVE  CompanyInv'
<1>1. Tables' /\ \A c \in CompanyIds : Known(c) => Known(c)'
  BY FoundKeeps DEF CompanyInv
<1>2. \A q \in Request, x \in CompanyIds : post[q] = heir[x] /\ Known(post[q]) =>
        post'[q] = heir'[x] /\ Known(post[q])'
  BY <1>1 DEF CompanyInv, Tables, TablesTyped, Known
<1>3. PostOK(r)'
  BY DEF PostOK, FileAt
<1> QED
  BY <1>1, <1>2, <1>3, FilePlacesRest DEF CompanyInv

\* createCompany.
LEMMA CreateStep == ASSUME CompanyInv, NEW r \in Request, NEW n \in CompanyName, CreateCompany(r, n) PROVE CompanyInv'
<1>1. /\ file' \in [Request -> FileRow] /\ \A q \in Request : q # r => file'[q] = file[q]
      /\ file'[r].op = "create" /\ file'[r].at \in {"ok", "refused"}
  BY ZenonT(40) DEF CompanyInv, FilePlaces, FileRow, CreateCompany
<1>2. FilePlaceOK(r)'
  BY <1>1 DEF FilePlaceOK
<1>3. CASE Named(n) = {}
  BY <1>1, <1>2, <1>3, NewKeeps DEF CreateCompany
<1>4. CASE Named(n) # {}
  BY <1>1, <1>2, <1>4, ReadKeeps DEF CreateCompany
<1> QED
  BY <1>3, <1>4

\* updateCompany.
LEMMA RenameStep ==
  ASSUME CompanyInv, NEW r \in Request, NEW c \in CompanyIds, NEW n \in CompanyName, RenameCompany(r, c, n)
  PROVE  CompanyInv'
<1>1. /\ file' \in [Request -> FileRow] /\ \A q \in Request : q # r => file'[q] = file[q]
      /\ file'[r].op = "rename" /\ file'[r].at \in {"ok", "refused"}
  BY ZenonT(40) DEF CompanyInv, FilePlaces, FileRow, RenameCompany
<1>2. FilePlaceOK(r)' /\ PostOK(r)'
  BY <1>1 DEF FilePlaceOK, PostOK, FileAt
<1>3. CASE Known(c) /\ Named(n) = {}
  <2>1. PICK old \in CompanyName : company[c] = old
    BY <1>3 DEF CompanyInv, Tables, TablesTyped, Known
  <2>2. Tables' /\ \A x \in CompanyIds : Known(x) => Known(x)'
    BY <1>3, <2>1, RenameKeeps DEF CompanyInv, RenameCompany
  <2>3. \A q \in Request, x \in CompanyIds : post[q] = heir[x] /\ Known(post[q]) =>
          post'[q] = heir'[x] /\ Known(post[q])'
    BY <2>2 DEF CompanyInv, Tables, TablesTyped, Known, RenameCompany
  <2> QED
    BY <1>1, <1>2, <2>2, <2>3, FilePlacesRest DEF CompanyInv
<1>4. CASE ~(Known(c) /\ Named(n) = {})
  BY <1>1, <1>2, <1>4, ReadKeeps DEF RenameCompany
<1> QED
  BY <1>3, <1>4

\* mergeCompanies reads the source.
LEMMA LoadSourceStep ==
  ASSUME CompanyInv, NEW r \in Request, NEW c \in CompanyIds, NEW d \in CompanyIds, LoadSource(r, c, d)
  PROVE  CompanyInv'
<1>1. company[c] \in CompanyName \cup {Nameless}
  BY DEF CompanyInv, Tables, TablesTyped
<1>2. PICK at \in {"target", "refused"} : at = IF Known(c) THEN "target" ELSE "refused"
  OBVIOUS
<1>3. PICK row \in FileRow :
        row = [op |-> "merge", at |-> at, source |-> c, target |-> d, name |-> company[c]]
  BY <1>1 DEF FileRow
<1>4. file' = [file EXCEPT ![r] = row]
  BY <1>2, <1>3 DEF LoadSource
<1>5. /\ file' \in [Request -> FileRow] /\ \A q \in Request : q # r => file'[q] = file[q]
      /\ file'[r] = row
  BY <1>3, <1>4 DEF CompanyInv, FilePlaces
<1>6. FilePlaceOK(r)'
  BY <1>1, <1>2, <1>3, <1>5 DEF FilePlaceOK, Known, LoadSource
<1>7. file'[r].at # "ok"
  BY <1>2, <1>3, <1>5
<1> QED
  BY <1>5, <1>6, <1>7, ReadKeeps DEF LoadSource

\* mergeCompanies reads the target.
LEMMA LoadTargetStep == ASSUME CompanyInv, NEW r \in Request, LoadTarget(r) PROVE CompanyInv'
<1>1. PICK at \in {"merge", "refused"} : FileTo(r, at)
  BY DEF LoadTarget
<1>2. /\ file' \in [Request -> FileRow] /\ \A q \in Request : q # r => file'[q] = file[q]
      /\ file'[r].at = at /\ file'[r].op = file[r].op /\ file'[r].name = file[r].name
      /\ file'[r].source = file[r].source /\ file'[r].target = file[r].target
  BY <1>1, FileMoves DEF CompanyInv, FilePlaces
<1>3. FilePlaceOK(r)'
  BY <1>2 DEF FilePlaceOK, CompanyInv, FilePlaces, LoadTarget, FileAt
<1> QED
  BY <1>2, <1>3, ReadKeeps DEF LoadTarget

\* The transaction of mergeCompanies.
LEMMA MergeStep == ASSUME CompanyInv, NEW r \in Request, Merge(r) PROVE CompanyInv'
<1>1. /\ file[r].op = "merge" /\ file[r].name \in CompanyName /\ file[r].source \in CompanyIds
      /\ file[r].target \in CompanyIds /\ file[r].source # file[r].target
  BY DEF CompanyInv, FilePlaces, FilePlaceOK, Merge, FileAt
<1>2. PICK c \in CompanyIds, d \in CompanyIds, n \in CompanyName :
        c = file[r].source /\ d = file[r].target /\ n = file[r].name
  BY <1>1
<1>3. PICK at \in {"ok", "failed"} : FileTo(r, at)
  BY DEF Merge
<1>4. /\ file' \in [Request -> FileRow] /\ \A q \in Request : q # r => file'[q] = file[q]
      /\ file'[r].at = at /\ file'[r].op = "merge"
  BY <1>1, <1>3, FileMoves DEF CompanyInv, FilePlaces
<1>5. FilePlaceOK(r)' /\ PostOK(r)'
  BY <1>4 DEF FilePlaceOK, PostOK, FileAt
<1>6. CASE Movable(c, d, n)
  <2>1. /\ post' = [q \in Request |-> Moved(c, d, post[q])]
        /\ alias' = AliasesAfter(c, d, n)
        /\ company' = [company EXCEPT ![c] = Nameless]
        /\ heir' = IF Known(c) THEN [x \in CompanyIds |-> Moved(c, heir[d], heir[x])] ELSE heir
        /\ strayed' = strayed \cup Strays(c, d, n)
        /\ UNCHANGED <<created, bearer>>
    BY <1>2, <1>6 DEF Merge
  <2>2. c # d
    BY <1>1, <1>2
  <2>3. Tables' /\ \A q \in Request, x \in CompanyIds : post[q] = heir[x] /\ Known(post[q]) =>
                     post'[q] = heir'[x] /\ Known(post[q])'
    BY <1>6, <2>1, <2>2, MergeKeeps DEF CompanyInv
  <2> QED
    BY <1>4, <1>5, <2>3, FilePlacesRest DEF CompanyInv
<1>7. CASE ~Movable(c, d, n)
  BY <1>2, <1>4, <1>5, <1>7, ReadKeeps DEF Merge
<1> QED
  BY <1>6, <1>7
\* createJobPost finds its company.
LEMMA FindStep == ASSUME CompanyInv, NEW r \in Request, NEW c \in CompanyIds, FindCompany(r, c) PROVE CompanyInv'
<1>1. /\ file' \in [Request -> FileRow] /\ \A q \in Request : q # r => file'[q] = file[q]
      /\ file'[r].at \in {"insert", "refused"} /\ file'[r].source = c
  <2>1. PICK at \in {"insert", "refused"} : at = IF Known(c) THEN "insert" ELSE "refused"
    OBVIOUS
  <2>2. file[r] \in FileRow
    BY DEF CompanyInv, FilePlaces
  <2>3. PICK row \in FileRow : row = [file[r] EXCEPT !.op = "post", !.source = c, !.at = at]
    BY <2>2 DEF FileRow
  <2>4. file' = [file EXCEPT ![r] = row] /\ row.at = at /\ row.source = c
    BY <2>1, <2>2, <2>3, ZenonT(40) DEF FindCompany, FileRow
  <2> QED
    BY <2>4 DEF CompanyInv, FilePlaces
<1>2. FilePlaceOK(r)'
  BY <1>1 DEF FilePlaceOK
<1> QED
  BY <1>1, <1>2, ReadKeeps DEF FindCompany

\* An import looks for the name.
LEMMA LookByNameStep == ASSUME CompanyInv, NEW r \in Request, NEW n \in CompanyName, LookByName(r, n) PROVE CompanyInv'
<1>1. /\ file' \in [Request -> FileRow] /\ \A q \in Request : q # r => file'[q] = file[q]
      /\ FilePlaceOK(r)' /\ file'[r].at # "ok"
  <2>0. file[r] \in FileRow
    BY DEF CompanyInv, FilePlaces
  <2>1. CASE file' = [file EXCEPT ![r].op = "import", ![r].at = "alias", ![r].name = n]
    <3>1. PICK row \in FileRow : row = [file[r] EXCEPT !.op = "import", !.at = "alias", !.name = n]
      BY <2>0 DEF FileRow
    <3>2. file' = [file EXCEPT ![r] = row] /\ row.at = "alias" /\ row.name = n
      BY <2>0, <2>1, <3>1, ZenonT(40) DEF FileRow
    <3>3. file'[r] = row
      BY <3>2 DEF CompanyInv, FilePlaces
    <3> QED
      BY <3>2, <3>3 DEF CompanyInv, FilePlaces, FilePlaceOK
  <2>2. ASSUME NEW c \in Named(n),
               file' = [file EXCEPT ![r].op = "import", ![r].at = "insert", ![r].name = n, ![r].source = c]
        PROVE  /\ file' \in [Request -> FileRow] /\ \A q \in Request : q # r => file'[q] = file[q]
               /\ FilePlaceOK(r)' /\ file'[r].at # "ok"
    <3>1. c \in CompanyIds
      BY <2>2 DEF Named
    <3>2. PICK row \in FileRow :
            row = [file[r] EXCEPT !.op = "import", !.at = "insert", !.name = n, !.source = c]
      BY <2>0, <3>1 DEF FileRow
    <3>3. file' = [file EXCEPT ![r] = row] /\ row.at = "insert" /\ row.source = c
      BY <2>0, <2>2, <3>2, ZenonT(40) DEF FileRow
    <3>4. file'[r] = row
      BY <3>3 DEF CompanyInv, FilePlaces
    <3> QED
      BY <3>1, <3>3, <3>4 DEF CompanyInv, FilePlaces, FilePlaceOK
  <2> QED
    BY <2>1, <2>2 DEF LookByName
<1> QED
  BY <1>1, ReadKeeps DEF LookByName

\* An import looks for an alias.
LEMMA LookByAliasStep == ASSUME CompanyInv, NEW r \in Request, LookByAlias(r) PROVE CompanyInv'
<1>1. file[r].name \in CompanyName
  BY DEF CompanyInv, FilePlaces, FilePlaceOK, LookByAlias, FileAt
<1>2. PICK c \in CompanyIds \cup {NoCompany} : c = alias[file[r].name]
  BY <1>1 DEF CompanyInv, Tables, TablesTyped
<1>3. PICK at \in {"found", "insert"} : at = IF c = NoCompany THEN "found" ELSE "insert"
  OBVIOUS
<1>4. file' = [file EXCEPT ![r].source = c, ![r].at = at]
  BY <1>2, <1>3 DEF LookByAlias
<1>5. /\ file' \in [Request -> FileRow] /\ \A q \in Request : q # r => file'[q] = file[q]
      /\ file'[r].at = at /\ file'[r].source = c /\ file'[r].name = file[r].name
  BY <1>4, ZenonT(40) DEF CompanyInv, FilePlaces, FileRow
<1>6. FilePlaceOK(r)'
  BY <1>1, <1>3, <1>5 DEF FilePlaceOK
<1> QED
  BY <1>5, <1>6, ReadKeeps DEF LookByAlias

\* An import makes a company.
LEMMA FoundStep == ASSUME CompanyInv, NEW r \in Request, FoundCompany(r) PROVE CompanyInv'
<1>1. PICK n \in CompanyName : n = file[r].name
  BY DEF CompanyInv, FilePlaces, FilePlaceOK, FoundCompany, FileAt
<1>2. CASE Named(n) = {}
  <2>1. Found(n) /\ file' = [file EXCEPT ![r].source = created', ![r].at = "insert"]
    BY <1>1, <1>2 DEF FoundCompany
  <2>2. PICK new \in CompanyIds : new = created'
    BY <1>2, <2>1, FoundKeeps DEF CompanyInv, FoundCompany
  <2>3. file' = [file EXCEPT ![r].source = new, ![r].at = "insert"]
    BY <2>1, <2>2
  <2>4. /\ file' \in [Request -> FileRow] /\ \A q \in Request : q # r => file'[q] = file[q]
        /\ file'[r].at = "insert" /\ file'[r].source = new
    BY <2>3, ZenonT(40) DEF CompanyInv, FilePlaces, FileRow
  <2>5. FilePlaceOK(r)'
    BY <2>4 DEF FilePlaceOK
  <2> QED
    BY <1>2, <2>1, <2>4, <2>5, NewKeeps DEF FoundCompany
<1>3. CASE Named(n) # {}
  <2>1. FileTo(r, "failed")
    BY <1>1, <1>3 DEF FoundCompany
  <2>2. /\ file' \in [Request -> FileRow] /\ \A q \in Request : q # r => file'[q] = file[q]
        /\ file'[r].at = "failed"
    BY <2>1, FileMoves DEF CompanyInv, FilePlaces
  <2>3. FilePlaceOK(r)'
    BY <2>2 DEF FilePlaceOK
  <2> QED
    BY <1>1, <1>3, <2>2, <2>3, ReadKeeps DEF FoundCompany
<1> QED
  BY <1>2, <1>3

\* The insert of a post.
LEMMA InsertStep == ASSUME CompanyInv, NEW r \in Request, InsertPost(r) PROVE CompanyInv'
<1>1. PICK c \in CompanyIds : c = file[r].source
  BY DEF CompanyInv, FilePlaces, FilePlaceOK, InsertPost, FileAt
<1>2. PICK at \in {"ok", "failed"} : FileTo(r, at) /\ at = IF Known(c) THEN "ok" ELSE "failed"
  BY <1>1 DEF InsertPost
<1>3. /\ file' \in [Request -> FileRow] /\ \A q \in Request : q # r => file'[q] = file[q]
      /\ file'[r].at = at /\ file'[r].source = c
  BY <1>1, <1>2, FileMoves DEF CompanyInv, FilePlaces
<1>4. FilePlaceOK(r)'
  BY <1>2, <1>3 DEF FilePlaceOK
<1>5. CASE Known(c)
  <2>1. /\ post' = [post EXCEPT ![r] = c]
        /\ UNCHANGED <<company, alias, created, heir, bearer, strayed>>
    BY <1>1, <1>5 DEF InsertPost
  <2>2. post'[r] = c /\ \A q \in Request : q # r => post'[q] = post[q]
    BY <2>1 DEF CompanyInv, Tables, TablesTyped
  <2>3. TablesTyped' /\ OwnHeirs'
    BY <2>1 DEF CompanyInv, Tables, TablesTyped, OwnHeirs, Known
  <2>4. Bearing'
    BY <2>1 DEF CompanyInv, Tables, Bearing, Known
  <2>5. AliasesLead'
    BY <2>1 DEF CompanyInv, Tables, AliasesLead, Named
  <2>6. Keyed'
    <3>1. /\ \A x, y \in CompanyIds : Known(x)' /\ company'[x] = company'[y] => x = y
          /\ \A n \in CompanyName : alias'[n] # NoCompany => company'[alias'[n]] # Nameless
      BY <2>1 DEF CompanyInv, Tables, Keyed, Known
    <3>2. \A q \in Request : post'[q] # NoCompany => company'[post'[q]] # Nameless
      BY <1>5, <2>1, <2>2 DEF CompanyInv, Tables, Keyed, Known
    <3> QED
      BY <3>1, <3>2 DEF Keyed, Known
  <2>7. heir[c] = c
    BY <1>5 DEF CompanyInv, Tables, OwnHeirs
  <2>8. PostOK(r)'
    BY <1>3, <1>5, <2>1, <2>2, <2>7 DEF PostOK, Known
  <2>9. \A q \in Request, x \in CompanyIds : q # r /\ post[q] = heir[x] /\ Known(post[q]) =>
          post'[q] = heir'[x] /\ Known(post[q])'
    BY <2>1, <2>2 DEF Known
  <2>10. Tables'
    BY <2>3, <2>4, <2>5, <2>6 DEF Tables
  <2>11. FilePlaces'
    BY <1>3, <1>4, <2>8, <2>9, FilePlacesRest DEF CompanyInv
  <2> QED
    BY <2>10, <2>11 DEF CompanyInv
<1>6. CASE ~Known(c)
  BY <1>1, <1>2, <1>3, <1>4, <1>6, ReadKeeps DEF InsertPost
<1> QED
  BY <1>5, <1>6

\* A call fails.
LEMMA FailStep == ASSUME CompanyInv, NEW r \in Request, FileFails(r) PROVE CompanyInv'
<1>1. /\ file' \in [Request -> FileRow] /\ \A q \in Request : q # r => file'[q] = file[q]
      /\ file'[r].at = "failed"
  BY FileMoves DEF FileFails, CompanyInv, FilePlaces
<1>2. FilePlaceOK(r)'
  BY <1>1 DEF FilePlaceOK
<1> QED
  BY <1>1, <1>2, ReadKeeps DEF FileFails

\* Every step keeps the invariant.
LEMMA CompanyNextKeeps == ASSUME CompanyInv, [CompanyNext]_companyVars PROVE CompanyInv'
<1>1. ASSUME NEW r \in Request, CompanyStep(r) PROVE CompanyInv'
  BY <1>1, CreateStep, LookByNameStep, RenameStep, LoadSourceStep, FindStep, LoadTargetStep,
     MergeStep, LookByAliasStep, FoundStep, InsertStep, FailStep DEF CompanyStep
<1>2. CASE UNCHANGED companyVars
  <2>1. UNCHANGED <<company, alias, post, created, heir, bearer, strayed, file>>
    BY <1>2 DEF companyVars
  <2>2. Tables'
    BY <2>1, TablesRest DEF CompanyInv
  <2>3. FilePlaces'
    BY <2>1 DEF CompanyInv, FilePlaces, FilePlaceOK, PostOK, FileAt, Known
  <2> QED
    BY <2>2, <2>3 DEF CompanyInv
<1> QED
  BY <1>1, <1>2 DEF CompanyNext

-----------------------------------------------------------------------------
(* Companies: theorems *)

\* The invariant implies both halves of the property.
LEMMA CompanyInvImplies == ASSUME CompanyInv PROVE CompanyTypeOK /\ CompaniesKeepTheirs
<1>1. CompanyTypeOK
  BY DEF CompanyInv, Tables, TablesTyped, FilePlaces, CompanyTypeOK
<1>2. PostsFollow
  BY DEF CompanyInv, FilePlaces, PostOK, PostsFollow
<1>3. ASSUME NEW n \in CompanyName \ strayed, bearer[n] # NoCompany
      PROVE  LeadsTo(n) = {heir[bearer[n]]}
  <2>1. bearer[n] \in CompanyIds /\ heir[bearer[n]] \in CompanyIds /\ n # Nameless
    BY <1>3, CompanyIdNumbers DEF CompanyInv, Tables, TablesTyped
  <2>2. ASSUME NEW c \in CompanyIds, company[c] = n PROVE bearer[n] = c /\ heir[c] = c
    BY <2>1, <2>2 DEF CompanyInv, Tables, Bearing, OwnHeirs, Known
  <2>3. CASE Named(n) # {}
    <3>1. PICK c \in CompanyIds : company[c] = n
      BY <2>3 DEF Named
    <3>2. bearer[n] = c /\ heir[c] = c
      BY <3>1, <2>2
    <3>3. Named(n) = {c}
      BY <3>1, <3>2, <2>2 DEF Named
    <3> QED
      BY <2>3, <3>2, <3>3 DEF LeadsTo
  <2>4. CASE Named(n) = {}
    <3>1. alias[n] = heir[bearer[n]]
      BY <1>3, <2>4 DEF CompanyInv, Tables, AliasesLead
    <3>2. alias[n] # NoCompany
      BY <2>1, <3>1, CompanyIdNumbers
    <3> QED
      BY <2>4, <3>1, <3>2 DEF LeadsTo
  <2> QED
    BY <2>3, <2>4
<1> QED
  BY <1>1, <1>2, <1>3 DEF CompaniesKeepTheirs, NamesFollow

\* The invariant holds in every state.
LEMMA CompanyInductive == CompanySpec => []CompanyInv
<1>1. CompanyInit /\ faults = 0 => CompanyInv
  BY InitCompanyInv
<1>2. CompanyInv /\ [CompanyNext]_<<companyVars, faults>> => CompanyInv'
  BY CompanyNextKeeps
<1> QED
  BY <1>1, <1>2, PTL DEF CompanySpec

\* The tables and the requests keep their types, whatever is created, renamed,
\* merged, imported or fails.
THEOREM CompaniesTyped == CompanySpec => []CompanyTypeOK
<1>1. CompanyInv => CompanyTypeOK
  BY CompanyInvImplies
<1> QED
  BY <1>1, CompanyInductive, PTL

\* Posts and names follow their companies through any number of merges
\* (mergeCompanies of company.service.js).
THEOREM NothingLeftBehind == CompanySpec => []CompaniesKeepTheirs
<1>1. CompanyInv => CompaniesKeepTheirs
  BY CompanyInvImplies
<1> QED
  BY <1>1, CompanyInductive, PTL

-----------------------------------------------------------------------------
(* The skill taxonomy: the invariant *)

AddSteps == {"resolve", "name", "create", "link", "linked", "experiences", "complete"}
MatchSteps == {"job", "cached", "stored", "store"}

WorkRow ==
  [op : WorkOps, at : {"idle", "ok", "refused", "failed"} \cup WorkSteps,
   profile : Profile \cup {NoProfile}, names : SUBSET Name, left : SUBSET Name,
   name : Name \cup {NoName}, skill : SkillIds \cup {NoSkill}, target : SkillIds \cup {NoSkill},
   seen : BOOLEAN, rows : SUBSET LinkIds, twice : SUBSET LinkIds,
   picked : SUBSET SkillIds, called : SUBSET Name, copied : SUBSET Experience,
   verdict : MatchRow, loaded : MatchRow]

\* Rows refer to rows that are there, and the unique indexes hold.
TaxonomyKeyed ==
  /\ skills \in [SkillIds -> Name \cup {NoName}]
  /\ \A s, t \in Skills : skills[s] = skills[t] => s = t
  /\ aliases \in [Name -> Skills \cup {NoSkill}]
  /\ links \in [LinkIds -> LinkRow \cup {NoLink}]
  /\ \A l \in Links : links[l].skill \in Skills
  /\ UniqueLinks(links)
  /\ needs \in SUBSET Skills

\* The next ids have not been used.
Unused ==
  /\ made \in [skills : 0..MaxSkills, links : 0..MaxLinks]
  /\ \A s \in Skills : s <= made.skills
  /\ \A l \in Links : l <= made.links

\* Rows and histories beside them.
Beside ==
  /\ matches \in [Profile -> MatchRow]
  /\ cv \in [Profile -> [copies : [Experience -> Nat], verified : BOOLEAN]]
  /\ work \in [Request -> WorkRow]
  /\ told \in SUBSET (Profile \X Name)
  /\ moved \in SUBSET Request /\ outdated \in SUBSET Profile
  /\ touched \in [Request -> SUBSET Profile]

\* A request remembers what it copied for whom.
KeepsCopies(r, w) ==
  /\ w.copied = work[r].copied
  /\ w.profile = work[r].profile \/ w.copied = {}

\* What a request that adds skills has yet to do, and what it has looked up: the
\* names it is done with are held, unless an edit crossed it.
AddOK(r) ==
  LET w == work[r] IN
  w.at \in AddSteps =>
    /\ w.profile \in Profile /\ w.op \in {"add", "verify"} /\ w.left \subseteq w.names
    /\ w.at \in {"name", "create", "link"} => w.name \in w.left
    /\ w.op = "add" => (\E n \in Name : w.names = {n}) /\ (w.at = "linked" => w.left = {})
    /\ w.at \in {"experiences", "complete"} => w.op = "verify" /\ w.left = {}
    /\ r \notin moved =>
         /\ \A n \in w.names \ w.left : Has(w.profile, n)
         /\ w.at \in {"name", "create"} => aliases[w.name] = NoSkill
         /\ w.at = "link" => Resolved(w.name) = {w.skill}

\* A merge knows the rows of a candidate nothing has happened to since it read them.
KnowsRows(r, p) ==
  \A l \in LinkIds : links[l].profile = p =>
    /\ l \in work[r].rows <=> links[l].skill = work[r].skill
    /\ l \in work[r].twice <=> links[l].skill = work[r].skill /\ work[r].target \in SkillsOf(p)

MergeOK(r) ==
  /\ work[r].at \in {"snapshot", "apply"} =>
       /\ work[r].skill \in SkillIds /\ work[r].target \in SkillIds
       /\ work[r].skill # work[r].target /\ work[r].name \in Name
  /\ work[r].at = "apply" => \A p \in Profile \ touched[r] : KnowsRows(r, p)

\* A calculation knows the candidate, and then the match, if nothing has happened
\* to them since it read them.
MatchOK(r) ==
  LET w == work[r] IN
  w.at \in MatchSteps =>
    /\ w.profile \in Profile
    /\ w.profile \notin touched[r] =>
         IF w.at = "job" THEN w.picked = SkillsOf(w.profile) /\ w.called = Called(w.profile)
         ELSE w.verdict = VerdictNow(w.profile)
    /\ w.profile \notin touched[r] /\ w.at = "store" => w.loaded = matches[w.profile]

\* Sets in the row of a request that has not come to them.
RestOK(r) ==
  LET w == work[r] IN
  /\ w.left \subseteq w.names /\ w.twice \subseteq w.rows
  /\ w.at # "apply" => w.twice = {}
  /\ w.at = "idle" => w.copied = {}

TaskOK(r) == AddOK(r) /\ MergeOK(r) /\ MatchOK(r) /\ RestOK(r)

TaxonomyInv ==
  /\ TaxonomyKeyed /\ Unused /\ Beside
  /\ \A r \in Request : TaskOK(r)
  /\ ToldIsHeld /\ MatchExplained

-----------------------------------------------------------------------------
(* The skill taxonomy: what a step leaves alone *)

\* Ids are positive, and no name or profile is the mark of a missing one.
LEMMA TaxonomyIds ==
  /\ MaxSkills \in Nat /\ MaxLinks \in Nat /\ IsFiniteSet(Request)
  /\ SkillIds \subseteq Nat \ {0} /\ LinkIds \subseteq Nat \ {0} /\ NoSkill \notin SkillIds
  /\ NoName \notin Name /\ NoProfile \notin Profile
  /\ NoLink \notin LinkRow
  BY TaxonomyAssumption DEF SkillIds, LinkIds, NoSkill, NoLink, LinkRow

\* A step of request r: a request under way sees in its histories what has happened
\* to the candidates and the names it works on.
Noticed(r) ==
  /\ \A q \in Request \ {r} :
       /\ touched[q] \subseteq touched'[q]
       /\ Open(q) => \A p \in Profile \ touched'[q] :
            /\ SkillsOf(p)' = SkillsOf(p) /\ Called(p)' = Called(p)
            /\ VerdictNow(p)' = VerdictNow(p) /\ matches'[p] = matches[p]
  /\ moved \subseteq moved'
  /\ \A q \in Request \ {r} : Open(q) /\ q \notin moved' =>
       /\ \A n \in work[q].names :
            aliases'[n] = aliases[n] /\ (Resolved(n) # {} => Resolved(n)' = Resolved(n))
       /\ \A p \in {work[q].profile} \cap Profile : SkillsOf(p) \subseteq SkillsOf(p)'

\* A candidate who keeps the same skills keeps the same rows.
RowsLast ==
  \A p \in Profile : SkillsOf(p)' = SkillsOf(p) =>
    \A l \in LinkIds : /\ links'[l].profile = p <=> links[l].profile = p
                       /\ links[l].profile = p => links'[l] = links[l]

\* Edits are noticed.
LEMMA OvertakenNotices ==
  ASSUME TaxonomyInv, NEW r \in Request, Overtaken(r)
  PROVE  Noticed(r)
<1>1. touched \in [Request -> SUBSET Profile]
  BY DEF TaxonomyInv, Beside
<1>2. ASSUME NEW q \in Request \ {r}
      PROVE  /\ touched[q] \subseteq touched'[q]
             /\ Open(q) => \A p \in Profile \ touched'[q] :
                  /\ SkillsOf(p)' = SkillsOf(p) /\ Called(p)' = Called(p)
                  /\ VerdictNow(p)' = VerdictNow(p) /\ matches'[p] = matches[p]
  <2>1. touched'[q] = IF Open(q) THEN touched[q] \cup Changed ELSE touched[q]
    BY DEF Overtaken
  <2>2. ASSUME NEW p \in Profile, p \notin Changed
        PROVE  /\ SkillsOf(p)' = SkillsOf(p) /\ Called(p)' = Called(p)
               /\ VerdictNow(p)' = VerdictNow(p) /\ matches'[p] = matches[p]
    BY <2>2 DEF Changed
  <2> QED
    BY <2>1, <2>2
<1>3. moved \subseteq moved'
  BY DEF Overtaken
<1>4. ASSUME NEW q \in Request \ {r}, Open(q), q \notin moved'
      PROVE  /\ \A n \in work[q].names :
                  aliases'[n] = aliases[n] /\ (Resolved(n) # {} => Resolved(n)' = Resolved(n))
             /\ \A p \in {work[q].profile} \cap Profile : SkillsOf(p) \subseteq SkillsOf(p)'
  <2>1. q \notin Crossed(r)
    BY <1>4 DEF Overtaken
  <2> QED
    BY <1>4, <2>1 DEF Crossed
<1> QED
  BY <1>2, <1>3, <1>4 DEF Noticed

\* A step that leaves the tables alone needs no notice.
LEMMA QuietNotices ==
  ASSUME UNCHANGED <<skills, aliases, links, needs, matches, moved>>, NEW r \in Request,
         \A q \in Request \ {r} : touched'[q] = touched[q]
  PROVE  Noticed(r) /\ RowsLast
<1>1. \A p : /\ SkillsOf(p)' = SkillsOf(p) /\ Called(p)' = Called(p)
             /\ VerdictNow(p)' = VerdictNow(p)
  BY DEF SkillsOf, Links, Called, VerdictNow, Verdict
<1>2. \A n : Resolved(n)' = Resolved(n)
  BY DEF Resolved, Skills
<1> QED
  BY <1>1, <1>2 DEF Noticed, RowsLast

\* What the invariant says of a request stays true while another one takes a step.
LEMMA TasksLast ==
  ASSUME TaxonomyInv, NEW r \in Request, NEW q \in Request \ {r}, work'[q] = work[q],
         Noticed(r), RowsLast
  PROVE  TaskOK(q)'
<1> DEFINE w == work[q]
<1>1. TaskOK(q) /\ w \in WorkRow
  BY DEF TaxonomyInv, Beside
<1>2. w.at \in AddSteps \cup MatchSteps \cup {"snapshot", "apply"} => Open(q)
  BY DEF Open, AddSteps, MatchSteps
<1>3. AddOK(q)'
  <2> SUFFICES ASSUME w.at \in AddSteps, q \notin moved'
               PROVE  /\ \A n \in w.names \ w.left : Has(w.profile, n)'
                      /\ w.at \in {"name", "create"} => aliases'[w.name] = NoSkill
                      /\ w.at = "link" => Resolved(w.name)' = {w.skill}
    BY <1>1 DEF TaskOK, AddOK, Has, Resolved, SkillsOf, Links, Skills
  <2>1. PICK p, x, s : p = w.profile /\ x = w.name /\ s = w.skill
    OBVIOUS
  <2>2. /\ p \in Profile /\ q \notin moved /\ w.names \subseteq Name
        /\ \A n \in w.names \ w.left : Has(p, n)
        /\ w.at \in {"name", "create", "link"} => x \in w.names
        /\ w.at \in {"name", "create"} => aliases[x] = NoSkill
        /\ w.at = "link" => Resolved(x) = {s}
    <3>1. w.names \subseteq Name
      BY <1>1 DEF WorkRow
    <3>2. q \notin moved /\ AddOK(q)
      BY <1>1 DEF TaskOK, Noticed
    <3> QED
      BY <2>1, <3>1, <3>2 DEF AddOK
  <2>3. /\ \A n \in w.names : /\ aliases'[n] = aliases[n]
                              /\ Resolved(n) # {} => Resolved(n)' = Resolved(n)
        /\ SkillsOf(p) \subseteq SkillsOf(p)'
    BY <1>2, <2>1, <2>2 DEF Noticed
  <2>4. \A n \in w.names \ w.left : Has(p, n)'
    BY <2>2, <2>3 DEF Has
  <2>5. /\ \A n \in w.names \ w.left : Has(w.profile, n)'
        /\ Resolved(w.name)' = Resolved(x)'
    BY <2>1, <2>4 DEF Has, Resolved, SkillsOf, Links, Skills
  <2> QED
    BY <2>1, <2>2, <2>3, <2>5
<1>4. MergeOK(q)'
  <2> SUFFICES ASSUME w.at = "apply", NEW p \in Profile \ touched'[q] PROVE KnowsRows(q, p)'
    BY <1>1 DEF TaskOK, MergeOK
  <2>1. KnowsRows(q, p)
    BY <1>1 DEF TaskOK, MergeOK, Noticed
  <2>2. SkillsOf(p)' = SkillsOf(p)
    BY <1>2 DEF Noticed
  <2> QED
    BY <2>1, <2>2 DEF KnowsRows, RowsLast
<1>5. MatchOK(q)'
  <2> SUFFICES ASSUME w.at \in MatchSteps, w.profile \notin touched'[q]
               PROVE  /\ IF w.at = "job"
                         THEN w.picked = SkillsOf(w.profile)' /\ w.called = Called(w.profile)'
                         ELSE w.verdict = VerdictNow(w.profile)'
                      /\ w.at = "store" => w.loaded = matches'[w.profile]
    BY <1>1 DEF TaskOK, MatchOK, SkillsOf, Links, Called, VerdictNow, Verdict
  <2>1. PICK p : p = w.profile
    OBVIOUS
  <2>2. /\ p \in Profile
        /\ IF w.at = "job" THEN w.picked = SkillsOf(p) /\ w.called = Called(p)
           ELSE w.verdict = VerdictNow(p)
        /\ w.at = "store" => w.loaded = matches[p]
    BY <1>1, <2>1 DEF TaskOK, MatchOK, Noticed
  <2>3. /\ SkillsOf(p)' = SkillsOf(p) /\ Called(p)' = Called(p)
        /\ VerdictNow(p)' = VerdictNow(p) /\ matches'[p] = matches[p]
    BY <1>2, <2>1, <2>2 DEF Noticed
  <2>4. /\ SkillsOf(w.profile)' = SkillsOf(p)' /\ Called(w.profile)' = Called(p)'
        /\ VerdictNow(w.profile)' = VerdictNow(p)'
    BY <2>1 DEF SkillsOf, Links, Called, VerdictNow, Verdict
  <2> QED
    BY <2>1, <2>2, <2>3, <2>4
<1>6. RestOK(q)'
  BY <1>1 DEF TaskOK, RestOK
<1> QED
  BY <1>3, <1>4, <1>5, <1>6 DEF TaskOK

\* Who copied what stays as it is while requests remember it.
LEMMA CopiersLast ==
  ASSUME TaxonomyInv, NEW r \in Request, NEW w, work' = [work EXCEPT ![r] = w], KeepsCopies(r, w)
  PROVE  \A p \in Profile, e \in Experience : Copiers(p, e)' = Copiers(p, e)
<1>1. work'[r] = w /\ \A q \in Request \ {r} : work'[q] = work[q]
  BY DEF TaxonomyInv, Beside
<1>2. ASSUME NEW p \in Profile, NEW e \in Experience, NEW q \in Request
      PROVE  (work'[q].profile = p /\ e \in work'[q].copied)
               <=> (work[q].profile = p /\ e \in work[q].copied)
  BY <1>1 DEF KeepsCopies
<1> QED
  BY <1>2 DEF Copiers

\* Then every copy is accounted for as before.
LEMMA CopiesLast ==
  ASSUME TaxonomyInv, NEW r \in Request, NEW w, work' = [work EXCEPT ![r] = w], KeepsCopies(r, w),
         cv' = cv
  PROVE  ExtractionCopied'
<1>1. \A p \in Profile, e \in Experience : Copiers(p, e)' = Copiers(p, e)
  BY CopiersLast
<1> QED
  BY <1>1 DEF TaxonomyInv, ToldIsHeld, ExtractionCopied

\* A step of request r that changes neither verified_at nor a stored match.
LEMMA StepKeeps ==
  ASSUME TaxonomyInv, NEW r \in Request, NEW w \in WorkRow, work' = [work EXCEPT ![r] = w],
         TaxonomyKeyed', Unused', UNCHANGED <<matches, cv>>, Noticed(r), RowsLast,
         KeepsCopies(r, w),
         told' \subseteq Profile \X Name, \A x \in told' : Has(x[1], x[2])',
         moved' \subseteq Request, touched' \in [Request -> SUBSET Profile],
         outdated \subseteq outdated', outdated' \subseteq Profile,
         \A p \in Profile \ outdated' : VerdictNow(p)' = VerdictNow(p),
         TaskOK(r)'
  PROVE  TaxonomyInv'
<1>1. work'[r] = w /\ \A q \in Request \ {r} : work'[q] = work[q]
  BY DEF TaxonomyInv, Beside
<1>2. Beside'
  BY DEF TaxonomyInv, Beside
<1>3. ExtractionCopied'
  BY CopiesLast
<1>4. \A q \in Request : TaskOK(q)'
  BY <1>1, TasksLast
<1>5. ToldIsHeld'
  BY <1>3 DEF ToldIsHeld, SkillsHeld
<1>6. MatchExplained'
  BY DEF MatchExplained, TaxonomyInv
<1> QED
  BY <1>2, <1>4, <1>5, <1>6 DEF TaxonomyInv

\* A step of request r that changes no table.
LEMMA QuietKeeps ==
  ASSUME TaxonomyInv, NEW r \in Request, NEW w \in WorkRow, work' = [work EXCEPT ![r] = w],
         UNCHANGED <<skills, aliases, links, needs, matches, cv, made, moved, outdated>>,
         touched' \in {touched, [touched EXCEPT ![r] = {}]},
         told' \subseteq Profile \X Name, \A x \in told' : x \in told \/ Has(x[1], x[2]),
         KeepsCopies(r, w), TaskOK(r)'
  PROVE  TaxonomyInv'
<1>1. TaxonomyKeyed' /\ Unused'
  BY DEF TaxonomyInv, TaxonomyKeyed, Unused, Skills, Links, UniqueLinks
<1>2. touched' \in [Request -> SUBSET Profile] /\ \A q \in Request \ {r} : touched'[q] = touched[q]
  BY DEF TaxonomyInv, Beside
<1>3. Noticed(r) /\ RowsLast
  BY <1>2, QuietNotices
<1>4. \A p, n : Has(p, n)' <=> Has(p, n)
  BY DEF Has, Resolved, Skills, SkillsOf, Links
<1>5. \A x \in told' : Has(x[1], x[2])'
  <2>1. \A x \in told' : Has(x[1], x[2])
    BY DEF TaxonomyInv, ToldIsHeld, SkillsHeld
  <2> QED
    BY <1>4, <2>1 DEF Has, Resolved, Skills, SkillsOf, Links
<1>6. \A p : VerdictNow(p)' = VerdictNow(p)
  BY DEF VerdictNow, Verdict, Called, SkillsOf, Links
<1>7. moved' \subseteq Request /\ outdated' \subseteq Profile
  BY DEF TaxonomyInv, Beside
<1> QED
  BY <1>1, <1>2, <1>3, <1>5, <1>6, <1>7, StepKeeps

\* An edit by request r.
LEMMA EditKeeps ==
  ASSUME TaxonomyInv, NEW r \in Request, NEW w \in WorkRow, work' = [work EXCEPT ![r] = w],
         TaxonomyKeyed', Unused', UNCHANGED <<matches, cv>>, Overtaken(r), Stale, RowsLast,
         told' \subseteq Profile \X Name, \A x \in told' : Has(x[1], x[2])',
         KeepsCopies(r, w), TaskOK(r)'
  PROVE  TaxonomyInv'
<1>1. Noticed(r)
  BY OvertakenNotices
<1>2. moved' \subseteq Request /\ touched' \in [Request -> SUBSET Profile]
  BY DEF TaxonomyInv, Beside, Overtaken, Crossed, Changed
<1>3. /\ outdated \subseteq outdated' /\ outdated' \subseteq Profile
      /\ \A p \in Profile \ outdated' : VerdictNow(p)' = VerdictNow(p)
  BY DEF Stale, TaxonomyInv, Beside
<1> QED
  BY <1>1, <1>2, <1>3, StepKeeps

-----------------------------------------------------------------------------
(* The skill taxonomy: the rows of requests *)

\* The row of a request, and what the invariant says of it.
LEMMA WorkTyped ==
  ASSUME TaxonomyInv, NEW r \in Request
  PROVE  /\ work[r] \in WorkRow /\ TaskOK(r)
         /\ work[r].names \subseteq Name /\ work[r].rows \subseteq LinkIds
         /\ work[r].profile \in Profile \cup {NoProfile}
         /\ work[r].picked \subseteq SkillIds /\ work[r].called \subseteq Name
         /\ work[r].op \in WorkOps
  BY DEF TaxonomyInv, Beside, WorkRow

\* A request that ends keeps nothing it has read.
EndedAs(v, at) ==
  [Idle EXCEPT !.op = v.op, !.at = at, !.profile = v.profile, !.copied = v.copied]

\* That is a row.
LEMMA EndedRow ==
  ASSUME NEW v \in WorkRow, NEW at \in {"ok", "refused", "failed"}
  PROVE  /\ EndedAs(v, at) \in WorkRow /\ EndedAs(v, at).at = at
         /\ EndedAs(v, at).profile = v.profile /\ EndedAs(v, at).copied = v.copied
         /\ EndedAs(v, at).left = {} /\ EndedAs(v, at).twice = {}
<1>1. NoMatch \in MatchRow
  BY DEF NoMatch, MatchRow
<1> QED
  BY <1>1 DEF EndedAs, Idle, WorkRow

\* Nothing is to be said of a request that has ended.
LEMMA EndedTask ==
  ASSUME NEW r, work'[r].at \in {"ok", "refused", "failed"},
         work'[r].left = {}, work'[r].twice = {}
  PROVE  TaskOK(r)'
  BY DEF TaskOK, AddOK, MergeOK, MatchOK, RestOK, AddSteps, MatchSteps

\* A request ends without changing a table.
LEMMA EndKeeps ==
  ASSUME TaxonomyInv, NEW r \in Request, NEW at \in {"ok", "failed"}, Finish(r, at),
         UNCHANGED <<skills, aliases, links, needs, matches, cv, made, moved, outdated, touched>>,
         told' \subseteq Profile \X Name, \A x \in told' : x \in told \/ Has(x[1], x[2])
  PROVE  TaxonomyInv'
<1> DEFINE w == EndedAs(work[r], at)
<1>1. /\ w \in WorkRow /\ w.at = at /\ w.left = {} /\ w.twice = {}
      /\ w.profile = work[r].profile /\ w.copied = work[r].copied
  <2>1. work[r] \in WorkRow /\ at \in {"ok", "refused", "failed"}
    BY WorkTyped
  <2> QED
    BY <2>1, EndedRow
<1>2. work' = [work EXCEPT ![r] = w]
  BY DEF Finish, EndedAs
<1> HIDE DEF w
<1>3. work'[r] = w
  BY <1>2 DEF TaxonomyInv, Beside
<1>4. TaskOK(r)'
  BY <1>1, <1>3, EndedTask
<1>5. KeepsCopies(r, w)
  BY <1>1 DEF KeepsCopies
<1> QED
  BY <1>1, <1>2, <1>4, <1>5, QuietKeeps

-----------------------------------------------------------------------------
(* The skill taxonomy: skills of a candidate *)

\* What a step of a request that adds skills has to leave.
LEMMA AddTask ==
  ASSUME NEW r, NEW w, work'[r] = w, w.at \in AddSteps,
         w.profile \in Profile, w.op \in {"add", "verify"}, w.left \subseteq w.names,
         w.at \in {"name", "create", "link"} => w.name \in w.left,
         w.op = "add" => (\E n \in Name : w.names = {n}) /\ (w.at = "linked" => w.left = {}),
         w.at \in {"experiences", "complete"} => w.op = "verify" /\ w.left = {},
         r \notin moved' => \A n \in w.names \ w.left : Has(w.profile, n)',
         r \notin moved' /\ w.at \in {"name", "create"} => aliases'[w.name] = NoSkill,
         r \notin moved' /\ w.at = "link" => Resolved(w.name)' = {w.skill}
  PROVE  AddOK(r)'
  BY DEF AddOK, AddSteps, Has, Resolved, Skills, SkillsOf, Links

\* A request begins to add skills.
LEMMA AddKeeps ==
  ASSUME TaxonomyInv, NEW r \in Request, NEW p \in Profile, NEW names \in SUBSET Name,
         NEW op, Add(r, op, p, names),
         \/ op = "add" /\ \E n \in Name : names = {n}
         \/ op = "verify"
  PROVE  TaxonomyInv'
<1> DEFINE w == [work[r] EXCEPT !.op = op, !.at = "resolve", !.profile = p,
                                !.names = names, !.left = names]
<1>1. /\ w \in WorkRow /\ w.op = op /\ w.at = "resolve" /\ w.profile = p /\ w.names = names
      /\ w.left = names /\ w.rows = work[r].rows /\ w.twice = work[r].twice
      /\ w.copied = work[r].copied
  <2>1. work[r] \in WorkRow /\ op \in WorkOps
    BY WorkTyped DEF WorkOps
  <2> QED
    BY <2>1 DEF WorkRow, WorkSteps
<1>2. /\ work' = [work EXCEPT ![r] = w]
      /\ UNCHANGED <<skills, aliases, links, needs, matches, cv, made, told, moved, outdated, touched>>
  BY DEF Add, Reads, tables
<1> HIDE DEF w
<1>3. work'[r] = w
  BY <1>2 DEF TaxonomyInv, Beside
<1>4. TaskOK(r)'
  <2>1. AddOK(r)'
    BY <1>1, <1>3 DEF AddOK
  <2>2. MergeOK(r)' /\ MatchOK(r)'
    BY <1>1, <1>3 DEF MergeOK, MatchOK, MatchSteps
  <2>3. RestOK(r)'
    <3>1. RestOK(r) /\ work[r].at = "idle"
      BY WorkTyped DEF TaskOK, Add, WorkAt
    <3> QED
      BY <1>1, <1>3, <3>1 DEF RestOK
  <2> QED
    BY <2>1, <2>2, <2>3 DEF TaskOK
<1>5. KeepsCopies(r, w)
  BY <1>1, WorkTyped DEF KeepsCopies, Add, WorkAt, TaskOK, RestOK
<1>6. told' \subseteq Profile \X Name
  BY <1>2 DEF TaxonomyInv, Beside
<1> QED
  BY <1>1, <1>2, <1>4, <1>5, <1>6, QuietKeeps

\* A name is looked up.
LEMMA ResolveKeeps ==
  ASSUME TaxonomyInv, NEW r \in Request, ResolveAlias(r) \/ ResolveName(r)
  PROVE  TaxonomyInv'
<1>1. PICK w : /\ work' = [work EXCEPT ![r] = w] /\ w \in WorkRow
               /\ w.op = work[r].op /\ w.profile = work[r].profile /\ w.names = work[r].names
               /\ w.left = work[r].left /\ w.rows = work[r].rows /\ w.twice = work[r].twice
               /\ w.copied = work[r].copied /\ w.name \in w.left
               /\ \/ w.at = "link" /\ w.skill \in SkillIds
                     /\ (r \notin moved => Resolved(w.name) = {w.skill})
                  \/ w.at \in {"name", "create"} /\ (r \notin moved => aliases[w.name] = NoSkill)
  <2>1. work[r] \in WorkRow /\ TaskOK(r) /\ work[r].names \subseteq Name
    BY WorkTyped
  <2>2. CASE ResolveAlias(r)
    <3>1. PICK n \in work[r].left :
            IF aliases[n] # NoSkill
            THEN work' = [work EXCEPT ![r].at = "link", ![r].name = n, ![r].skill = aliases[n]]
            ELSE work' = [work EXCEPT ![r].at = "name", ![r].name = n]
      BY <2>2 DEF ResolveAlias
    <3>2. n \in Name
      BY <2>1 DEF TaskOK, RestOK
    <3>3. CASE aliases[n] # NoSkill
      <4>1. aliases[n] \in SkillIds /\ Resolved(n) = {aliases[n]}
        BY <3>2, <3>3 DEF TaxonomyInv, TaxonomyKeyed, Skills, Resolved
      <4> DEFINE w == [work[r] EXCEPT !.at = "link", !.name = n, !.skill = aliases[n]]
      <4>2. /\ w \in WorkRow /\ w.op = work[r].op /\ w.profile = work[r].profile
            /\ w.names = work[r].names /\ w.left = work[r].left /\ w.rows = work[r].rows
            /\ w.twice = work[r].twice /\ w.copied = work[r].copied
            /\ w.name = n /\ w.at = "link" /\ w.skill = aliases[n]
            /\ work' = [work EXCEPT ![r] = w]
        BY <2>1, <3>1, <3>2, <3>3, <4>1 DEF WorkRow, WorkSteps
      <4> HIDE DEF w
      <4> QED
        BY <3>1, <4>1, <4>2
    <3>4. CASE aliases[n] = NoSkill
      <4> DEFINE w == [work[r] EXCEPT !.at = "name", !.name = n]
      <4>1. /\ w \in WorkRow /\ w.op = work[r].op /\ w.profile = work[r].profile
            /\ w.names = work[r].names /\ w.left = work[r].left /\ w.rows = work[r].rows
            /\ w.twice = work[r].twice /\ w.copied = work[r].copied
            /\ w.name = n /\ w.at = "name"
            /\ work' = [work EXCEPT ![r] = w]
        BY <2>1, <3>1, <3>2, <3>4, ZenonT(40) DEF WorkRow, WorkSteps
      <4> HIDE DEF w
      <4> QED
        BY <3>1, <3>4, <4>1
    <3> QED
      BY <3>3, <3>4
  <2>3. CASE ResolveName(r)
    <3>1. AddOK(r) /\ work[r].at = "name"
      BY <2>1, <2>3 DEF TaskOK, ResolveName, WorkAt
    <3>2. /\ work[r].name \in work[r].left
          /\ r \notin moved => aliases[work[r].name] = NoSkill
      BY <3>1 DEF AddOK, AddSteps
    <3>3. CASE {s \in Skills : skills[s] = work[r].name} = {}
      <4> DEFINE w == [work[r] EXCEPT !.at = "create"]
      <4>1. /\ w \in WorkRow /\ w.op = work[r].op /\ w.profile = work[r].profile
            /\ w.names = work[r].names /\ w.left = work[r].left /\ w.rows = work[r].rows
            /\ w.twice = work[r].twice /\ w.copied = work[r].copied
            /\ w.name = work[r].name /\ w.at = "create"
            /\ work' = [work EXCEPT ![r] = w]
        BY <2>1, <2>3, <3>3 DEF WorkRow, WorkSteps, ResolveName, WorkTo
      <4> HIDE DEF w
      <4> QED
        BY <3>2, <4>1
    <3>4. ASSUME NEW s \in Skills, skills[s] = work[r].name,
                 work' = [work EXCEPT ![r].at = "link", ![r].skill = s]
          PROVE  \E w : /\ work' = [work EXCEPT ![r] = w] /\ w \in WorkRow
                        /\ w.op = work[r].op /\ w.profile = work[r].profile
                        /\ w.names = work[r].names /\ w.left = work[r].left
                        /\ w.rows = work[r].rows /\ w.twice = work[r].twice
                        /\ w.copied = work[r].copied /\ w.name \in w.left /\ w.at = "link" /\ w.skill \in SkillIds
                        /\ (r \notin moved => Resolved(w.name) = {w.skill})
      <4> DEFINE w == [work[r] EXCEPT !.at = "link", !.skill = s]
      <4>1. s \in SkillIds
        BY DEF Skills
      <4>2. /\ w \in WorkRow /\ w.op = work[r].op /\ w.profile = work[r].profile
            /\ w.names = work[r].names /\ w.left = work[r].left /\ w.rows = work[r].rows
            /\ w.twice = work[r].twice /\ w.copied = work[r].copied
            /\ w.name = work[r].name /\ w.at = "link" /\ w.skill = s
            /\ work' = [work EXCEPT ![r] = w]
        BY <2>1, <3>4, <4>1 DEF WorkRow, WorkSteps
      <4>3. {t \in Skills : skills[t] = work[r].name} = {s}
        BY <3>4 DEF TaxonomyInv, TaxonomyKeyed
      <4>4. r \notin moved => Resolved(work[r].name) = {s}
        BY <3>2, <4>3 DEF Resolved
      <4> HIDE DEF w
      <4> QED
        BY <3>2, <4>1, <4>2, <4>4
    <3> QED
      BY <2>3, <3>3, <3>4 DEF ResolveName
  <2> QED
    BY <2>2, <2>3
<1>2. /\ UNCHANGED <<skills, aliases, links, needs, matches, cv, made, told, moved, outdated, touched>>
      /\ work[r].at \in {"resolve", "name"} /\ work'[r] = w
  BY <1>1 DEF ResolveAlias, ResolveName, Reads, tables, WorkAt, TaxonomyInv, Beside
<1>3. TaskOK(r)'
  <2>1. /\ AddOK(r) /\ RestOK(r) /\ work[r].at \in AddSteps
    BY <1>2, WorkTyped DEF TaskOK, AddSteps
  <2>2. \A p, n : Has(p, n)' <=> Has(p, n)
    BY <1>2 DEF Has, Resolved, Skills, SkillsOf, Links
  <2>3. r \notin moved => \A n \in w.names \ w.left : Has(w.profile, n)'
    <3>1. PICK p : p = w.profile
      OBVIOUS
    <3>2. r \notin moved => \A n \in w.names \ w.left : Has(p, n)'
      BY <1>1, <2>1, <2>2, <3>1 DEF AddOK
    <3> QED
      BY <3>1, <3>2
  <2>4. Resolved(w.name)' = Resolved(w.name)
    BY <1>2 DEF Resolved, Skills
  <2>5. AddOK(r)'
    BY <1>1, <1>2, <2>1, <2>3, <2>4 DEF AddOK, AddSteps, Has, Resolved, Skills, SkillsOf, Links
  <2>6. MergeOK(r)' /\ MatchOK(r)' /\ RestOK(r)'
    BY <1>1, <1>2, <2>1 DEF MergeOK, MatchOK, MatchSteps, RestOK
  <2> QED
    BY <2>5, <2>6 DEF TaskOK
<1>4. KeepsCopies(r, w)
  BY <1>1 DEF KeepsCopies
<1>5. told' \subseteq Profile \X Name
  BY <1>2 DEF TaxonomyInv, Beside
<1> QED
  BY <1>1, <1>2, <1>3, <1>4, <1>5, QuietKeeps

\* A new skill takes no name away from anybody.
LEMMA NewSkillStep ==
  ASSUME TaxonomyInv, NEW n \in Name, NewSkill(n), \A s \in Skills : skills[s] # n,
         UNCHANGED <<aliases, links, needs>>
  PROVE  /\ TaxonomyKeyed' /\ Unused' /\ RowsLast
         /\ \A p : SkillsOf(p)' = SkillsOf(p)
         /\ \A m : Resolved(m) # {} => Resolved(m)' = Resolved(m)
         /\ made.skills + 1 \in SkillIds
         /\ aliases[n] = NoSkill => Resolved(n)' = {made.skills + 1}
<1> DEFINE s == made.skills + 1
<1>1. /\ TaxonomyKeyed /\ Unused /\ made.skills \in 0..MaxSkills /\ made.links \in 0..MaxLinks
  BY DEF TaxonomyInv, Unused
<1>2. /\ made' = [made EXCEPT !.skills = s] /\ skills' = [skills EXCEPT ![s] = n]
      /\ s \in SkillIds
  BY <1>1, TaxonomyIds DEF NewSkill, SkillIds
<1>3. s \notin Skills
  BY <1>1, <1>2, TaxonomyIds DEF Unused
<1>4. Skills' = Skills \cup {s} /\ \A t \in Skills : skills'[t] = skills[t]
  BY <1>1, <1>2, <1>3, TaxonomyIds DEF TaxonomyKeyed, Skills
<1>5. skills' \in [SkillIds -> Name \cup {NoName}] /\ skills'[s] = n
  BY <1>1, <1>2 DEF TaxonomyKeyed
<1>6. Links' = Links /\ \A p : SkillsOf(p)' = SkillsOf(p)
  BY DEF Links, SkillsOf
<1>7. TaxonomyKeyed'
  <2>1. \A t, u \in Skills' : skills'[t] = skills'[u] => t = u
    BY <1>1, <1>4, <1>5 DEF TaxonomyKeyed
  <2> QED
    BY <1>1, <1>4, <1>5, <1>6, <2>1 DEF TaxonomyKeyed, UniqueLinks
<1>8. Unused'
  <2>1. made'.skills = s /\ made'.links = made.links /\ made' \in [skills : 0..MaxSkills, links : 0..MaxLinks]
    BY <1>1, <1>2, TaxonomyIds DEF Unused, SkillIds
  <2>2. \A t \in Skills : t <= s
    BY <1>1, TaxonomyIds DEF Unused, Skills
  <2> QED
    BY <1>1, <1>2, <1>4, <1>6, <2>1, <2>2, TaxonomyIds DEF Unused
<1>9. RowsLast
  BY DEF RowsLast
<1>10. ASSUME NEW m, Resolved(m) # {} PROVE Resolved(m)' = Resolved(m)
  BY <1>4, <1>5, <1>10 DEF Resolved
<1>11. aliases[n] = NoSkill => Resolved(n)' = {s}
  BY <1>4, <1>5 DEF Resolved
<1> QED
  BY <1>2, <1>6, <1>7, <1>8, <1>9, <1>10, <1>11

\* A new row of a candidate takes nothing away from anybody.
LEMMA LinkStep ==
  ASSUME TaxonomyInv, NEW p \in Profile, NEW s \in Skills, RowsFor(p, s) = {},
         made.links < MaxLinks, made' = [made EXCEPT !.links = @ + 1],
         links' = [links EXCEPT ![made.links + 1] = [profile |-> p, skill |-> s]],
         UNCHANGED <<skills, aliases, needs>>
  PROVE  /\ TaxonomyKeyed' /\ Unused' /\ RowsLast
         /\ \A q : SkillsOf(q) \subseteq SkillsOf(q)'
         /\ s \in SkillsOf(p)' /\ made.links + 1 \in LinkIds
<1> DEFINE l == made.links + 1
           row == [profile |-> p, skill |-> s]
<1>1. /\ TaxonomyKeyed /\ Unused /\ made.skills \in 0..MaxSkills /\ made.links \in 0..MaxLinks
      /\ s \in SkillIds
  BY DEF TaxonomyInv, Unused, Skills
<1>2. /\ l \in LinkIds /\ l \notin Links /\ row \in LinkRow /\ row.skill = s /\ row.profile = p
      /\ s # NoSkill
  BY <1>1, TaxonomyIds DEF LinkIds, Unused, LinkRow
<1>3. links[l] = NoLink
  BY <1>1, <1>2, TaxonomyIds DEF Links, TaxonomyKeyed, LinkRow, NoSkill
<1>4. /\ links' \in [LinkIds -> LinkRow \cup {NoLink}] /\ links'[l] = row
      /\ \A k \in LinkIds : k # l => links'[k] = links[k]
  BY <1>1, <1>2 DEF TaxonomyKeyed
<1>5. Links' = Links \cup {l}
  BY <1>2, <1>4 DEF Links
<1>6. \A k \in Links : links[k] # row
  BY DEF RowsFor
<1>7. UniqueLinks(links')
  <2> SUFFICES ASSUME NEW j \in LinkIds, NEW k \in LinkIds, links'[j] = links'[k], links'[j] # NoLink
               PROVE  j = k
    BY DEF UniqueLinks
  <2>1. CASE j # l /\ k # l
    BY <1>1, <1>4, <2>1 DEF TaxonomyKeyed, UniqueLinks
  <2>2. \A i \in LinkIds : i # l => links'[i] # row
    BY <1>2, <1>4, <1>6, TaxonomyIds DEF Links
  <2> QED
    BY <1>4, <2>1, <2>2
<1>8. TaxonomyKeyed'
  <2>1. \A k \in Links' : links'[k].skill \in Skills
    BY <1>1, <1>2, <1>4, <1>5 DEF TaxonomyKeyed, Links
  <2> QED
    BY <1>1, <1>4, <1>7, <2>1 DEF TaxonomyKeyed, Skills
<1>9. Unused'
  <2>1. made'.links = l /\ made'.skills = made.skills /\ made' \in [skills : 0..MaxSkills, links : 0..MaxLinks]
    BY <1>1, <1>2, TaxonomyIds DEF Unused, LinkIds
  <2>2. \A k \in Links : k <= l
    BY <1>1, TaxonomyIds DEF Unused, Links
  <2>3. Skills' = Skills
    BY DEF Skills
  <2> QED
    BY <1>1, <1>2, <1>5, <2>1, <2>2, <2>3, TaxonomyIds DEF Unused
<1>10. \A q : SkillsOf(q) \subseteq SkillsOf(q)'
  <2>1. \A k \in Links : k \in Links' /\ links'[k] = links[k]
    BY <1>2, <1>4, <1>5 DEF Links
  <2> QED
    BY <2>1 DEF SkillsOf
<1>11. s \in SkillsOf(p)'
  BY <1>2, <1>4, <1>5 DEF SkillsOf
<1>12. RowsLast
  <2> SUFFICES ASSUME NEW q \in Profile, SkillsOf(q)' = SkillsOf(q), NEW k \in LinkIds
               PROVE  /\ links'[k].profile = q <=> links[k].profile = q
                      /\ links[k].profile = q => links'[k] = links[k]
    BY DEF RowsLast
  <2>1. CASE q = p
    <3>1. s \in SkillsOf(p)
      BY <1>11, <2>1
    <3>2. PICK i \in Links : links[i].profile = p /\ links[i].skill = s
      BY <3>1 DEF SkillsOf
    <3>3. links[i] \in LinkRow
      BY <1>1, <3>2 DEF TaxonomyKeyed, Links, NoLink
    <3> QED
      BY <1>6, <3>2, <3>3 DEF LinkRow
  <2>2. CASE q # p /\ k = l
    BY <1>2, <1>3, <1>4, <2>2, TaxonomyIds DEF NoLink
  <2>3. CASE k # l
    BY <1>4, <2>3
  <2> QED
    BY <2>1, <2>2, <2>3
<1> QED
  BY <1>2, <1>8, <1>9, <1>10, <1>11, <1>12

\* What a candidate was told to have stays, when nothing is taken away.
LEMMA ToldStays ==
  ASSUME TaxonomyInv, told' = told,
         \A n : Resolved(n) # {} => Resolved(n)' = Resolved(n),
         \A p : SkillsOf(p) \subseteq SkillsOf(p)'
  PROVE  /\ told' \subseteq Profile \X Name /\ \A x \in told' : Has(x[1], x[2])'
         /\ \A p, n : Has(p, n) => Has(p, n)'
<1>1. \A p, n : Has(p, n) => Has(p, n)'
  BY DEF Has
<1>2. \A x \in told : Has(x[1], x[2]) /\ told \subseteq Profile \X Name
  BY DEF TaxonomyInv, ToldIsHeld, SkillsHeld, Beside
<1>3. ASSUME NEW x \in told PROVE Has(x[1], x[2])'
  <2>1. PICK p, n : x = <<p, n>>
    BY <1>2
  <2>2. Has(p, n)'
    BY <1>1, <1>2, <2>1
  <2> QED
    BY <2>1, <2>2
<1> QED
  BY <1>1, <1>2, <1>3

\* A missing skill is created.
LEMMA CreateMissingKeeps ==
  ASSUME TaxonomyInv, NEW r \in Request, CreateMissing(r)
  PROVE  TaxonomyInv'
<1>1. PICK n, s, p : /\ n = work[r].name /\ s = made.skills + 1 /\ p = work[r].profile
                     /\ work[r] \in WorkRow /\ TaskOK(r) /\ work[r].at = "create"
                     /\ work[r].names \subseteq Name
  BY WorkTyped DEF CreateMissing, WorkAt
<1>2. n \in work[r].left /\ n \in Name
  BY <1>1 DEF TaskOK, AddOK, AddSteps
<1>3. CASE \E t \in Skills : skills[t] = n
  <2>1. /\ Finish(r, "failed") /\ told' = told
        /\ UNCHANGED <<skills, aliases, links, needs, matches, cv, made, moved, outdated, touched>>
    BY <1>1, <1>3 DEF CreateMissing, tables
  <2>2. told' \subseteq Profile \X Name
    BY <2>1 DEF TaxonomyInv, Beside
  <2> QED
    BY <2>1, <2>2, EndKeeps
<1>4. CASE ~\E t \in Skills : skills[t] = n
  <2>0. PICK w : w = [work[r] EXCEPT !.at = "link", !.skill = s]
    OBVIOUS
  <2>1. /\ NewSkill(n) /\ work' = [work EXCEPT ![r] = w] /\ Overtaken(r) /\ Stale
        /\ UNCHANGED <<aliases, links, needs, matches, cv, told>>
    BY <1>1, <1>4, <2>0 DEF CreateMissing
  <2>2. /\ TaxonomyKeyed' /\ Unused' /\ RowsLast
        /\ \A q : SkillsOf(q)' = SkillsOf(q)
        /\ \A m : Resolved(m) # {} => Resolved(m)' = Resolved(m)
        /\ s \in SkillIds /\ (aliases[n] = NoSkill => Resolved(n)' = {s})
    BY <1>1, <1>2, <1>4, <2>1, NewSkillStep
  <2>3. /\ w \in WorkRow /\ w.op = work[r].op /\ w.at = "link" /\ w.skill = s
        /\ w.profile = p /\ w.names = work[r].names /\ w.left = work[r].left
        /\ w.name = n /\ w.rows = work[r].rows /\ w.twice = work[r].twice
        /\ w.copied = work[r].copied
    BY <1>1, <2>0, <2>2 DEF WorkRow, WorkSteps
  <2>4. work'[r] = w
    BY <2>1 DEF TaxonomyInv, Beside
  <2>5. /\ told' \subseteq Profile \X Name /\ \A x \in told' : Has(x[1], x[2])'
        /\ \A q, m : Has(q, m) => Has(q, m)'
    BY <2>1, <2>2, ToldStays
  <2>6. AddOK(r)'
    <3>1. AddOK(r)
      BY <1>1 DEF TaskOK
    <3>2. r \notin moved' => /\ \A m \in w.names \ w.left : Has(p, m)
                             /\ aliases[n] = NoSkill
      BY <1>1, <2>1, <2>3, <3>1 DEF AddOK, AddSteps, Overtaken
    <3>3. r \notin moved' => /\ \A m \in w.names \ w.left : Has(p, m)'
                             /\ Resolved(n)' = {s}
      BY <2>2, <2>5, <3>2
    <3>4. /\ w.profile \in Profile /\ w.op \in {"add", "verify"} /\ w.left \subseteq w.names
          /\ w.name \in w.left /\ (w.op = "add" => \E m \in Name : w.names = {m})
      BY <1>1, <1>2, <2>3, <3>1 DEF AddOK, AddSteps
    <3> QED
      BY <2>3, <2>4, <3>3, <3>4, AddTask DEF AddSteps
  <2>7. MergeOK(r)' /\ MatchOK(r)' /\ RestOK(r)'
    BY <1>1, <2>3, <2>4 DEF TaskOK, MergeOK, MatchOK, MatchSteps, RestOK
  <2>8. TaskOK(r)' /\ KeepsCopies(r, w)
    BY <1>1, <2>3, <2>6, <2>7 DEF TaskOK, KeepsCopies
  <2> QED
    BY <2>1, <2>2, <2>3, <2>5, <2>8, EditKeeps
<1> QED
  BY <1>3, <1>4

\* The row of a candidate and a skill is found or created.
LEMMA LinkSkillKeeps ==
  ASSUME TaxonomyInv, NEW r \in Request, LinkSkill(r)
  PROVE  TaxonomyInv'
<1>1. PICK n, s, p, row :
        /\ n = work[r].name /\ s = work[r].skill /\ p = work[r].profile
        /\ row = IF RowsFor(p, s) = {} THEN {made.links + 1} ELSE RowsFor(p, s)
        /\ work[r] \in WorkRow /\ TaskOK(r) /\ work[r].at = "link" /\ work[r].names \subseteq Name
  BY WorkTyped DEF LinkSkill, WorkAt
<1>2. n \in work[r].left /\ n \in Name /\ p \in Profile
  BY <1>1 DEF TaskOK, AddOK, AddSteps
<1>3. CASE s \notin Skills
  <2>1. /\ Finish(r, "failed") /\ told' = told
        /\ UNCHANGED <<skills, aliases, links, needs, matches, cv, made, moved, outdated, touched>>
    BY <1>1, <1>3 DEF LinkSkill, tables
  <2>2. told' \subseteq Profile \X Name
    BY <2>1 DEF TaxonomyInv, Beside
  <2> QED
    BY <2>1, <2>2, EndKeeps
<1>4. CASE s \in Skills
  <2>0. PICK w : w = [work[r] EXCEPT !.at = "linked", !.left = work[r].left \ {n},
                        !.skill = NoSkill, !.name = NoName, !.rows = row]
    OBVIOUS
  <2>1. /\ work' = [work EXCEPT ![r] = w] /\ Overtaken(r) /\ Stale
        /\ UNCHANGED <<skills, aliases, needs, matches, cv, told>>
    BY <1>1, <1>4, <2>0 DEF LinkSkill
  <2>2. /\ TaxonomyKeyed' /\ Unused' /\ RowsLast /\ row \subseteq LinkIds
        /\ \A q : SkillsOf(q) \subseteq SkillsOf(q)'
        /\ s \in SkillsOf(p)'
    <3>1. CASE RowsFor(p, s) = {}
      <4>1. /\ made.links < MaxLinks /\ made' = [made EXCEPT !.links = @ + 1]
            /\ links' = [links EXCEPT ![made.links + 1] = [profile |-> p, skill |-> s]]
        BY <1>1, <1>4, <3>1 DEF LinkSkill
      <4>2. made.links + 1 \in LinkIds => row \subseteq LinkIds
        BY <1>1, <3>1
      <4> QED
        BY <1>2, <1>4, <2>1, <3>1, <4>1, <4>2, LinkStep
    <3>2. CASE RowsFor(p, s) # {}
      <4>1. UNCHANGED <<made, links>>
        BY <1>1, <1>4, <3>2 DEF LinkSkill
      <4>2. TaxonomyKeyed' /\ Unused'
        BY <2>1, <4>1 DEF TaxonomyInv, TaxonomyKeyed, Unused, Skills, Links, UniqueLinks
      <4>3. RowsLast /\ \A q : SkillsOf(q)' = SkillsOf(q)
        BY <4>1 DEF RowsLast, SkillsOf, Links
      <4>4. s \in SkillsOf(p)
        BY <3>2 DEF RowsFor, SkillsOf
      <4>5. s \in SkillsOf(p)'
        BY <4>1, <4>4 DEF SkillsOf, Links
      <4>6. row \subseteq LinkIds
        BY <1>1, <3>2 DEF RowsFor, Links
      <4> QED
        BY <4>2, <4>3, <4>5, <4>6
    <3> QED
      BY <3>1, <3>2
  <2>3. /\ w \in WorkRow /\ w.op = work[r].op /\ w.at = "linked" /\ w.profile = p
        /\ w.names = work[r].names /\ w.left = work[r].left \ {n} /\ w.twice = work[r].twice
        /\ w.copied = work[r].copied
    <3>1. row \in SUBSET LinkIds
      BY <2>2
    <3> QED
      BY <1>1, <2>0, <3>1, ZenonT(40) DEF WorkRow, WorkSteps
  <2>4. work'[r] = w
    BY <2>1 DEF TaxonomyInv, Beside
  <2>5. \A m : Resolved(m)' = Resolved(m)
    BY <2>1 DEF Resolved, Skills
  <2>6. /\ told' \subseteq Profile \X Name /\ \A x \in told' : Has(x[1], x[2])'
        /\ \A q, m : Has(q, m) => Has(q, m)'
    BY <2>1, <2>2, <2>5, ToldStays
  <2>7. AddOK(r)'
    <3>1. AddOK(r)
      BY <1>1 DEF TaskOK
    <3>2. r \notin moved' => /\ \A m \in work[r].names \ work[r].left : Has(p, m)
                             /\ Resolved(n) = {s}
      BY <1>1, <2>1, <3>1 DEF AddOK, AddSteps, Overtaken
    <3>3. r \notin moved' => Has(p, n)'
      BY <2>2, <2>5, <3>2 DEF Has
    <3>4. r \notin moved' => \A m \in w.names \ w.left : Has(p, m)'
      BY <2>3, <2>6, <3>2, <3>3
    <3>5. /\ w.op \in {"add", "verify"} /\ w.left \subseteq w.names
          /\ w.op = "add" => (\E m \in Name : w.names = {m}) /\ w.left = {}
      BY <1>1, <1>2, <2>3, <3>1 DEF AddOK, AddSteps
    <3> QED
      BY <1>2, <2>3, <2>4, <3>4, <3>5, AddTask DEF AddSteps
  <2>8. MergeOK(r)' /\ MatchOK(r)' /\ RestOK(r)'
    <3>1. RestOK(r)
      BY <1>1 DEF TaskOK
    <3> QED
      BY <1>1, <2>3, <2>4, <3>1 DEF MergeOK, MatchOK, MatchSteps, RestOK
  <2>9. TaskOK(r)' /\ KeepsCopies(r, w)
    BY <1>1, <2>3, <2>7, <2>8 DEF TaskOK, KeepsCopies
  <2> QED
    BY <2>1, <2>2, <2>3, <2>6, <2>9, EditKeeps
<1> QED
  BY <1>3, <1>4

\* The request has done what it says it has done.
LEMMA ToldGrows ==
  ASSUME TaxonomyInv, NEW r \in Request, Told(r), work[r].at \in AddSteps, work[r].left = {}
  PROVE  told' \subseteq Profile \X Name /\ \A x \in told' : x \in told \/ Has(x[1], x[2])
<1>1. told \subseteq Profile \X Name
  BY DEF TaxonomyInv, Beside
<1>2. /\ work[r].names \subseteq Name /\ work[r].profile \in Profile
      /\ r \notin moved => \A n \in work[r].names : Has(work[r].profile, n)
  BY WorkTyped DEF TaskOK, AddOK
<1> QED
  BY <1>1, <1>2 DEF Told

\* The row is read again.
LEMMA SaveLinkKeeps ==
  ASSUME TaxonomyInv, NEW r \in Request, SaveLink(r)
  PROVE  TaxonomyInv'
<1>1. /\ work[r] \in WorkRow /\ TaskOK(r) /\ work[r].at = "linked"
      /\ UNCHANGED <<skills, aliases, links, needs, matches, cv, made, moved, outdated, touched>>
  BY WorkTyped DEF SaveLink, WorkAt, tables
<1>2. CASE work[r].op = "add" /\ Finish(r, "ok") /\ Told(r)
  <2>1. work[r].left = {}
    BY <1>1, <1>2 DEF TaskOK, AddOK, AddSteps
  <2>2. told' \subseteq Profile \X Name /\ \A x \in told' : x \in told \/ Has(x[1], x[2])
    BY <1>1, <1>2, <2>1, ToldGrows DEF AddSteps
  <2> QED
    BY <1>1, <1>2, <2>2, EndKeeps
<1>3. CASE Finish(r, "failed") /\ UNCHANGED told
  <2>1. told' \subseteq Profile \X Name /\ \A x \in told' : x \in told
    BY <1>3 DEF TaxonomyInv, Beside
  <2> QED
    BY <1>1, <1>3, <2>1, EndKeeps
<1>4. ASSUME work[r].op = "verify", UNCHANGED told,
             work' = [work EXCEPT ![r].at = IF work[r].left = {} THEN "experiences" ELSE "resolve",
                                  ![r].rows = {}]
      PROVE  TaxonomyInv'
  <2>0. PICK w, p : /\ p = work[r].profile
                    /\ w = [work[r] EXCEPT !.rows = {},
                              !.at = IF work[r].left = {} THEN "experiences" ELSE "resolve"]
    OBVIOUS
  <2>1. /\ w \in WorkRow /\ work' = [work EXCEPT ![r] = w]
        /\ w.at = (IF work[r].left = {} THEN "experiences" ELSE "resolve")
        /\ w.op = "verify" /\ w.profile = p /\ w.names = work[r].names
        /\ w.left = work[r].left /\ w.rows = {} /\ w.twice = work[r].twice
        /\ w.copied = work[r].copied
    BY <1>1, <1>4, <2>0, ZenonT(40) DEF WorkRow, WorkSteps
  <2>2. work'[r] = w
    BY <2>1 DEF TaxonomyInv, Beside
  <2>3. AddOK(r)'
    <3>1. \A q, n : Has(q, n)' <=> Has(q, n)
      BY <1>1 DEF Has, Resolved, Skills, SkillsOf, Links
    <3>2. AddOK(r)
      BY <1>1 DEF TaskOK
    <3>3. /\ p \in Profile /\ w.left \subseteq w.names
          /\ r \notin moved' => \A n \in w.names \ w.left : Has(p, n)'
      BY <1>1, <2>0, <2>1, <3>1, <3>2 DEF AddOK, AddSteps
    <3> QED
      BY <2>1, <2>2, <3>3, AddTask DEF AddSteps
  <2>4. MergeOK(r)' /\ MatchOK(r)' /\ RestOK(r)'
    <3>1. RestOK(r)
      BY <1>1 DEF TaskOK
    <3> QED
      BY <1>1, <2>1, <2>2, <3>1 DEF MergeOK, MatchOK, MatchSteps, RestOK
  <2>5. TaskOK(r)' /\ KeepsCopies(r, w)
    BY <2>0, <2>1, <2>3, <2>4 DEF TaskOK, KeepsCopies
  <2>6. told' \subseteq Profile \X Name
    BY <1>4 DEF TaxonomyInv, Beside
  <2> QED
    BY <1>1, <1>4, <2>1, <2>5, <2>6, QuietKeeps
<1> QED
  BY <1>2, <1>3, <1>4 DEF SaveLink

\* A step of request r that changes the extractions only.
LEMMA ExtractionKeeps ==
  ASSUME TaxonomyInv, NEW r \in Request, NEW w \in WorkRow, work' = [work EXCEPT ![r] = w],
         UNCHANGED <<skills, aliases, links, needs, matches, made, told, moved, outdated, touched>>,
         cv' \in [Profile -> [copies : [Experience -> Nat], verified : BOOLEAN]],
         ExtractionCopied', TaskOK(r)'
  PROVE  TaxonomyInv'
<1>1. TaxonomyKeyed' /\ Unused'
  BY DEF TaxonomyInv, TaxonomyKeyed, Unused, Skills, Links, UniqueLinks
<1>2. Beside' /\ work'[r] = w /\ \A q \in Request \ {r} : work'[q] = work[q]
  BY DEF TaxonomyInv, Beside
<1>3. Noticed(r) /\ RowsLast
  BY QuietNotices
<1>4. \A q \in Request : TaskOK(q)'
  BY <1>2, <1>3, TasksLast
<1>5. ToldIsHeld'
  <2>1. ASSUME NEW x \in told' PROVE Has(x[1], x[2])'
    <3>1. Has(x[1], x[2])
      BY DEF TaxonomyInv, ToldIsHeld, SkillsHeld
    <3> QED
      BY <3>1 DEF Has, Resolved, Skills, SkillsOf, Links
  <2>2. SkillsHeld'
    BY <2>1 DEF SkillsHeld
  <2> QED
    BY <2>2 DEF ToldIsHeld
<1>6. MatchExplained'
  <2>1. \A p : VerdictNow(p)' = VerdictNow(p)
    BY DEF VerdictNow, Verdict, Called, SkillsOf, Links
  <2> QED
    BY <2>1 DEF MatchExplained, TaxonomyInv
<1> QED
  BY <1>1, <1>2, <1>4, <1>5, <1>6 DEF TaxonomyInv

\* What a verification leaves while it goes through the experiences and is marked.
LEMMA VerifyTask ==
  ASSUME TaxonomyInv, NEW r \in Request, NEW w, work'[r] = w,
         work[r].at = "experiences", w.at \in {"experiences", "complete"},
         w.op = work[r].op, w.profile = work[r].profile, w.names = work[r].names,
         w.left = work[r].left, w.twice = work[r].twice,
         UNCHANGED <<skills, aliases, links, moved>>
  PROVE  TaskOK(r)'
<1>1. TaskOK(r) /\ AddOK(r) /\ RestOK(r)
  BY WorkTyped DEF TaskOK
<1>2. PICK p : p = work[r].profile
  OBVIOUS
<1>3. /\ p \in Profile /\ work[r].op = "verify" /\ work[r].left = {}
      /\ r \notin moved => \A n \in w.names \ w.left : Has(p, n)
  BY <1>1, <1>2 DEF AddOK, AddSteps
<1>4. \A n : Has(p, n)' <=> Has(p, n)
  BY DEF Has, Resolved, Skills, SkillsOf, Links
<1>5. AddOK(r)'
  BY <1>2, <1>3, <1>4, AddTask DEF AddSteps
<1> QED
  BY <1>1, <1>3, <1>5 DEF TaskOK, MergeOK, MatchOK, MatchSteps, RestOK

\* An experience is copied.
LEMMA CopyKeeps ==
  ASSUME TaxonomyInv, NEW r \in Request, CopyExperience(r)
  PROVE  TaxonomyInv'
<1>1. PICK e \in Experience, p \in {work[r].profile}, w \in WorkRow :
        /\ e \notin work[r].copied
        /\ w = [work[r] EXCEPT !.copied = work[r].copied \cup {e}]
        /\ cv' = [cv EXCEPT ![p].copies[e] = @ + 1] /\ work' = [work EXCEPT ![r] = w]
        /\ work[r] \in WorkRow /\ TaskOK(r) /\ work[r].at = "experiences"
        /\ UNCHANGED <<skills, aliases, links, needs, matches, made, told, moved, outdated, touched>>
  <2>1. PICK e \in Experience \ work[r].copied :
          /\ cv' = [cv EXCEPT ![work[r].profile].copies[e] = @ + 1]
          /\ work' = [work EXCEPT ![r].copied = @ \cup {e}]
    BY DEF CopyExperience
  <2>2. work[r] \in WorkRow /\ TaskOK(r)
    BY WorkTyped
  <2>3. [work[r] EXCEPT !.copied = work[r].copied \cup {e}] \in WorkRow
    BY <2>2 DEF WorkRow
  <2> QED
    BY <2>1, <2>2, <2>3 DEF CopyExperience, WorkAt
<1>2. p \in Profile
  BY <1>1 DEF TaskOK, AddOK, AddSteps
<1>3. /\ w \in WorkRow /\ w.op = work[r].op /\ w.at = "experiences" /\ w.profile = p
      /\ w.names = work[r].names /\ w.left = work[r].left /\ w.twice = work[r].twice
      /\ w.copied = work[r].copied \cup {e}
  BY <1>1 DEF WorkRow
<1>4. /\ cv \in [Profile -> [copies : [Experience -> Nat], verified : BOOLEAN]]
      /\ work'[r] = w /\ \A q \in Request \ {r} : work'[q] = work[q]
  BY <1>1 DEF TaxonomyInv, Beside
<1>5. /\ cv' \in [Profile -> [copies : [Experience -> Nat], verified : BOOLEAN]]
      /\ \A q \in Profile, x \in Experience :
           /\ cv'[q].verified = cv[q].verified
           /\ cv'[q].copies[x] = IF q = p /\ x = e THEN cv[q].copies[x] + 1 ELSE cv[q].copies[x]
           /\ cv[q].copies[x] \in Nat
  <2>1. PICK k, d : /\ k = [cv[p].copies EXCEPT ![e] = cv[p].copies[e] + 1]
                    /\ d = [cv[p] EXCEPT !.copies = k]
    OBVIOUS
  <2>2. cv' = [cv EXCEPT ![p] = d]
    BY <1>1, <2>1
  <2>3. /\ k \in [Experience -> Nat] /\ k[e] = cv[p].copies[e] + 1
        /\ \A x \in Experience \ {e} : k[x] = cv[p].copies[x]
    BY <1>2, <1>4, <2>1
  <2>4. /\ d \in [copies : [Experience -> Nat], verified : BOOLEAN]
        /\ d.copies = k /\ d.verified = cv[p].verified
    BY <1>2, <1>4, <2>1, <2>3
  <2>5. /\ cv' \in [Profile -> [copies : [Experience -> Nat], verified : BOOLEAN]]
        /\ cv'[p] = d /\ \A q \in Profile \ {p} : cv'[q] = cv[q]
    BY <1>2, <1>4, <2>2, <2>4
  <2>6. \A q \in Profile, x \in Experience : cv[q].copies[x] \in Nat
    BY <1>4
  <2> QED
    BY <2>3, <2>4, <2>5, <2>6
<1>6. ASSUME NEW q \in Profile, NEW x \in Experience
      PROVE  /\ cv'[q].verified => cv'[q].copies[x] > 0
             /\ cv'[q].copies[x] = Cardinality(Copiers(q, x)')
  <2>1. /\ cv[q].verified => cv[q].copies[x] > 0
        /\ cv[q].copies[x] = Cardinality(Copiers(q, x))
    BY DEF TaxonomyInv, ToldIsHeld, ExtractionCopied
  <2>2. CASE q = p /\ x = e
    <3>1. r \notin Copiers(q, x)
      BY <1>1, <2>2 DEF Copiers
    <3>2. ASSUME NEW i \in Request
          PROVE  (work'[i].profile = q /\ x \in work'[i].copied)
                   <=> (i = r \/ (work[i].profile = q /\ x \in work[i].copied))
      BY <1>3, <1>4, <2>2
    <3>3. Copiers(q, x)' = Copiers(q, x) \cup {r}
      BY <3>2 DEF Copiers
    <3>4. IsFiniteSet(Copiers(q, x))
      <4>1. Copiers(q, x) \subseteq Request
        BY DEF Copiers
      <4> QED
        BY <4>1, TaxonomyIds, FS_Subset
    <3>5. Cardinality(Copiers(q, x)') = Cardinality(Copiers(q, x)) + 1
      BY <3>1, <3>3, <3>4, FS_AddElement
    <3> QED
      BY <1>5, <2>1, <2>2, <3>5
  <2>3. CASE ~(q = p /\ x = e)
    <3>1. Copiers(q, x)' = Copiers(q, x)
      BY <1>1, <1>3, <1>4, <2>3 DEF Copiers
    <3> QED
      BY <1>5, <2>1, <2>3, <3>1
  <2> QED
    BY <2>2, <2>3
<1>7. ExtractionCopied'
  BY <1>6 DEF ExtractionCopied
<1>8. TaskOK(r)'
  BY <1>1, <1>3, <1>4, VerifyTask
<1> QED
  BY <1>1, <1>3, <1>5, <1>7, <1>8, ExtractionKeeps

\* The extraction is marked as verified.
LEMMA MarkKeeps ==
  ASSUME TaxonomyInv, NEW r \in Request, MarkVerified(r)
  PROVE  TaxonomyInv'
<1>1. PICK p, w :
        /\ p = work[r].profile /\ w = [work[r] EXCEPT !.at = "complete"]
        /\ cv' = [cv EXCEPT ![p].verified = TRUE] /\ work' = [work EXCEPT ![r] = w]
        /\ work[r] \in WorkRow /\ TaskOK(r) /\ work[r].at = "experiences"
        /\ work[r].copied = Experience
        /\ UNCHANGED <<skills, aliases, links, needs, matches, made, told, moved, outdated, touched>>
  BY WorkTyped DEF MarkVerified, WorkAt, WorkTo
<1>2. p \in Profile
  BY <1>1 DEF TaskOK, AddOK, AddSteps
<1>3. /\ w \in WorkRow /\ w.op = work[r].op /\ w.at = "complete" /\ w.profile = p
      /\ w.names = work[r].names /\ w.left = work[r].left /\ w.twice = work[r].twice
      /\ w.copied = work[r].copied
  BY <1>1 DEF WorkRow, WorkSteps
<1>4. /\ cv \in [Profile -> [copies : [Experience -> Nat], verified : BOOLEAN]]
      /\ work'[r] = w
  BY <1>1 DEF TaxonomyInv, Beside
<1>5. /\ cv' \in [Profile -> [copies : [Experience -> Nat], verified : BOOLEAN]]
      /\ \A q \in Profile : /\ cv'[q].copies = cv[q].copies
                            /\ q # p => cv'[q].verified = cv[q].verified
  BY <1>1, <1>2, <1>4
<1>6. \A q \in Profile, x \in Experience : Copiers(q, x)' = Copiers(q, x)
  BY <1>1, <1>3, CopiersLast DEF KeepsCopies
<1>7. ASSUME NEW x \in Experience PROVE cv[p].copies[x] > 0
  <2>1. r \in Copiers(p, x)
    BY <1>1, <1>7 DEF Copiers
  <2>2. IsFiniteSet(Copiers(p, x))
    <3>1. Copiers(p, x) \subseteq Request
      BY DEF Copiers
    <3> QED
      BY <3>1, TaxonomyIds, FS_Subset
  <2>3. Cardinality(Copiers(p, x)) \in Nat /\ Cardinality(Copiers(p, x)) # 0
    BY <2>1, <2>2, FS_EmptySet, FS_CardinalityType
  <2>4. cv[p].copies[x] = Cardinality(Copiers(p, x))
    BY <1>2 DEF TaxonomyInv, ToldIsHeld, ExtractionCopied
  <2> QED
    BY <2>3, <2>4
<1>8. ExtractionCopied'
  <2>1. \A q \in Profile, x \in Experience :
          /\ cv[q].verified => cv[q].copies[x] > 0
          /\ cv[q].copies[x] = Cardinality(Copiers(q, x))
    BY DEF TaxonomyInv, ToldIsHeld, ExtractionCopied
  <2>2. ASSUME NEW q \in Profile, NEW x \in Experience
        PROVE  /\ cv'[q].verified => cv'[q].copies[x] > 0
               /\ cv'[q].copies[x] = Cardinality(Copiers(q, x)')
    BY <1>5, <1>6, <1>7, <2>1
  <2> QED
    BY <2>2 DEF ExtractionCopied
<1>9. TaskOK(r)'
  BY <1>1, <1>3, <1>4, VerifyTask
<1> QED
  BY <1>1, <1>3, <1>5, <1>8, <1>9, ExtractionKeeps

\* The profile is saved, and the request has done what it was asked for.
LEMMA SaveProfileKeeps ==
  ASSUME TaxonomyInv, NEW r \in Request, SaveProfile(r)
  PROVE  TaxonomyInv'
<1>1. /\ work[r].at = "complete" /\ Finish(r, "ok") /\ Told(r) /\ TaskOK(r)
      /\ UNCHANGED <<skills, aliases, links, needs, matches, cv, made, moved, outdated, touched>>
  BY WorkTyped DEF SaveProfile, WorkAt, tables
<1>2. work[r].at \in AddSteps /\ work[r].left = {}
  BY <1>1 DEF TaskOK, AddOK, AddSteps
<1>3. told' \subseteq Profile \X Name /\ \A x \in told' : x \in told \/ Has(x[1], x[2])
  BY <1>1, <1>2, ToldGrows
<1> QED
  BY <1>1, <1>3, EndKeeps

-----------------------------------------------------------------------------
(* The skill taxonomy: edits of the taxonomy *)

\* An edit that is one step, and takes from nobody what it may not.
LEMMA OneStepKeeps ==
  ASSUME TaxonomyInv, NEW r \in Request, NEW op \in WorkOps \ {"verify"}, OneStep(r, op),
         TaxonomyKeyed', Unused', UNCHANGED <<matches, cv>>, Overtaken(r), Stale, RowsLast,
         told' \subseteq Profile \X Name, \A x \in told' : Has(x[1], x[2])'
  PROVE  TaxonomyInv'
<1>1. PICK w : w = [Idle EXCEPT !.op = op, !.at = "ok"]
  OBVIOUS
<1>2. /\ w \in WorkRow /\ w.at = "ok" /\ w.left = {} /\ w.twice = {} /\ w.copied = {}
      /\ work' = [work EXCEPT ![r] = w]
  BY <1>1 DEF OneStep, Idle, WorkRow, NoMatch, MatchRow
<1>3. work'[r] = w
  BY <1>2 DEF TaxonomyInv, Beside
<1>4. TaskOK(r)'
  BY <1>2, <1>3, EndedTask
<1>5. KeepsCopies(r, w)
  BY <1>2, WorkTyped DEF KeepsCopies, OneStep, WorkAt, TaskOK, RestOK
<1> QED
  BY <1>2, <1>4, <1>5, EditKeeps

\* A deliberate edit is excused.
LEMMA ExcusedHolds ==
  ASSUME TaxonomyInv, Excused
  PROVE  told' \subseteq Profile \X Name /\ \A x \in told' : Has(x[1], x[2])'
<1>1. told \subseteq Profile \X Name
  BY DEF TaxonomyInv, Beside
<1>2. ASSUME NEW x \in told' PROVE x \in told /\ Has(x[1], x[2])'
  BY DEF Excused
<1> QED
  BY <1>1, <1>2

\* A skill of a candidate is removed.
LEMMA RemoveKeeps ==
  ASSUME TaxonomyInv, NEW r \in Request, NEW l \in LinkIds, DeleteCandidateSkill(r, l)
  PROVE  TaxonomyInv'
<1>1. /\ l \in Links /\ links' = [links EXCEPT ![l] = NoLink] /\ OneStep(r, "remove")
      /\ UNCHANGED <<skills, aliases, needs, matches, cv, made>>
      /\ Excused /\ Overtaken(r) /\ Stale
  BY DEF DeleteCandidateSkill
<1>2. TaxonomyKeyed /\ Unused
  BY DEF TaxonomyInv
<1>3. /\ links'[l] = NoLink /\ \A k \in LinkIds \ {l} : links'[k] = links[k]
      /\ links' \in [LinkIds -> LinkRow \cup {NoLink}]
  BY <1>1, <1>2 DEF TaxonomyKeyed
<1>4. Links' = Links \ {l} /\ Skills' = Skills
  BY <1>1, <1>3 DEF Links, NoLink, Skills
<1>5. TaxonomyKeyed'
  <2>1. UniqueLinks(links')
    BY <1>2, <1>3 DEF TaxonomyKeyed, UniqueLinks
  <2> QED
    BY <1>1, <1>2, <1>3, <1>4, <2>1 DEF TaxonomyKeyed
<1>6. Unused'
  BY <1>1, <1>2, <1>4 DEF Unused
<1>7. RowsLast
  <2> SUFFICES ASSUME NEW p \in Profile, SkillsOf(p)' = SkillsOf(p), NEW k \in LinkIds
               PROVE  /\ links'[k].profile = p <=> links[k].profile = p
                      /\ links[k].profile = p => links'[k] = links[k]
    BY DEF RowsLast
  <2>1. CASE k # l
    BY <1>3, <2>1
  <2>2. CASE k = l /\ links[l].profile # p
    BY <1>3, <2>2, TaxonomyIds DEF NoLink
  <2>3. CASE k = l /\ links[l].profile = p
    <3>1. links[l].skill \in SkillsOf(p)'
      BY <1>1, <2>3 DEF SkillsOf
    <3>2. PICK j \in Links' : links'[j].profile = p /\ links'[j].skill = links[l].skill
      BY <3>1 DEF SkillsOf
    <3>3. j # l /\ links[j] = links'[j] /\ j \in LinkIds /\ j \in Links
      BY <1>3, <1>4, <3>2 DEF Links
    <3>4. links[j] \in LinkRow /\ links[l] \in LinkRow
      BY <1>1, <1>2, <3>3 DEF TaxonomyKeyed, Links, NoLink
    <3>5. links[j] = links[l]
      BY <2>3, <3>2, <3>3, <3>4 DEF LinkRow
    <3> QED
      BY <1>2, <3>3, <3>4, <3>5, TaxonomyIds DEF TaxonomyKeyed, UniqueLinks
  <2> QED
    BY <2>1, <2>2, <2>3
<1>8. told' \subseteq Profile \X Name /\ \A x \in told' : Has(x[1], x[2])'
  BY <1>1, ExcusedHolds
<1>9. "remove" \in WorkOps \ {"verify"}
  BY DEF WorkOps
<1> QED
  BY <1>1, <1>5, <1>6, <1>7, <1>8, <1>9, OneStepKeeps

\* A skill is created.
LEMMA CreateSkillKeeps ==
  ASSUME TaxonomyInv, NEW r \in Request, NEW n \in Name, CreateSkill(r, n)
  PROVE  TaxonomyInv'
<1>1. /\ OneStep(r, "createSkill") /\ NewSkill(n) /\ \A s \in Skills : skills[s] # n
      /\ UNCHANGED <<aliases, links, needs, matches, cv, told>> /\ Overtaken(r) /\ Stale
  BY DEF CreateSkill
<1>2. /\ TaxonomyKeyed' /\ Unused' /\ RowsLast
      /\ \A p : SkillsOf(p)' = SkillsOf(p)
      /\ \A m : Resolved(m) # {} => Resolved(m)' = Resolved(m)
  BY <1>1, NewSkillStep
<1>3. told' \subseteq Profile \X Name /\ \A x \in told' : Has(x[1], x[2])'
  BY <1>1, <1>2, ToldStays
<1>4. "createSkill" \in WorkOps \ {"verify"}
  BY DEF WorkOps
<1> QED
  BY <1>1, <1>2, <1>3, <1>4, OneStepKeeps

\* A skill is renamed, or an alias comes or goes.
LEMMA NamesKeepTables ==
  ASSUME TaxonomyInv, NEW r \in Request, NEW n \in Name,
         \/ \E s \in SkillIds : UpdateSkill(r, s, n) \/ AddAlias(r, s, n)
         \/ DeleteAlias(r, n)
  PROVE  TaxonomyInv'
<1>1. PICK op \in {"updateSkill", "addAlias", "deleteAlias"} : OneStep(r, op)
  BY DEF UpdateSkill, AddAlias, DeleteAlias
<1>2. /\ UNCHANGED <<links, needs, matches, cv, made>>
      /\ Excused /\ Overtaken(r) /\ Stale
  BY DEF UpdateSkill, AddAlias, DeleteAlias
<1>3. TaxonomyKeyed /\ Unused
  BY DEF TaxonomyInv
<1>4. /\ Skills' = Skills /\ skills' \in [SkillIds -> Name \cup {NoName}]
      /\ \A s, t \in Skills : skills'[s] = skills'[t] => s = t
      /\ aliases' \in [Name -> Skills \cup {NoSkill}]
  <2>1. CASE \E s \in SkillIds : UpdateSkill(r, s, n)
    <3>1. PICK s \in Skills : /\ \A t \in Skills : skills[t] # n
                              /\ skills' = [skills EXCEPT ![s] = n] /\ aliases' = aliases
      BY <2>1 DEF UpdateSkill
    <3>2. /\ skills' \in [SkillIds -> Name \cup {NoName}] /\ skills'[s] = n
          /\ \A t \in SkillIds \ {s} : skills'[t] = skills[t]
      BY <1>3, <3>1 DEF TaxonomyKeyed, Skills
    <3>3. Skills' = Skills
      BY <3>1, <3>2, TaxonomyIds DEF Skills
    <3>4. \A t, u \in Skills : skills'[t] = skills'[u] => t = u
      BY <1>3, <3>1, <3>2 DEF TaxonomyKeyed, Skills
    <3> QED
      BY <1>3, <3>1, <3>2, <3>3, <3>4 DEF TaxonomyKeyed
  <2>2. CASE (\E s \in SkillIds : AddAlias(r, s, n)) \/ DeleteAlias(r, n)
    <3>1. /\ skills' = skills
          /\ \E s \in Skills \cup {NoSkill} : aliases' = [aliases EXCEPT ![n] = s]
      BY <2>2 DEF AddAlias, DeleteAlias
    <3>2. Skills' = Skills
      BY <3>1 DEF Skills
    <3> QED
      BY <1>3, <3>1, <3>2 DEF TaxonomyKeyed
  <2> QED
    BY <2>1, <2>2
<1>5. Links' = Links /\ RowsLast
  BY <1>2 DEF Links, RowsLast
<1>6. TaxonomyKeyed' /\ Unused'
  BY <1>2, <1>3, <1>4, <1>5 DEF TaxonomyKeyed, Unused, UniqueLinks
<1>7. told' \subseteq Profile \X Name /\ \A x \in told' : Has(x[1], x[2])'
  BY <1>2, ExcusedHolds
<1>8. op \in WorkOps \ {"verify"}
  BY <1>1 DEF WorkOps
<1> QED
  BY <1>1, <1>2, <1>5, <1>6, <1>7, <1>8, OneStepKeeps

-----------------------------------------------------------------------------
(* The skill taxonomy: the post and its match scores *)

\* The post asks for other skills.
LEMMA NeedsStep ==
  ASSUME TaxonomyInv, needs' \in SUBSET Skills, UNCHANGED <<skills, aliases, links, made, told>>
  PROVE  /\ TaxonomyKeyed' /\ Unused' /\ RowsLast
         /\ told' \subseteq Profile \X Name /\ \A x \in told' : Has(x[1], x[2])'
<1>1. TaxonomyKeyed' /\ Unused'
  BY DEF TaxonomyInv, TaxonomyKeyed, Unused, Skills, Links, UniqueLinks
<1>2. /\ \A n : Resolved(n)' = Resolved(n)
      /\ \A p : SkillsOf(p)' = SkillsOf(p)
  BY DEF Resolved, Skills, SkillsOf, Links
<1>3. RowsLast
  BY DEF RowsLast
<1>4. told' \subseteq Profile \X Name /\ \A x \in told' : Has(x[1], x[2])'
  BY <1>2, ToldStays
<1> QED
  BY <1>1, <1>3, <1>4

\* The skills of the post are deleted.
LEMMA UpdateJobKeeps ==
  ASSUME TaxonomyInv, NEW r \in Request, NEW chosen \in SUBSET Skills, UpdateJobPost(r, chosen)
  PROVE  TaxonomyInv'
<1>1. PICK w : /\ w = [work[r] EXCEPT !.op = "updateJob", !.at = "fill", !.picked = chosen]
               /\ work[r] \in WorkRow /\ RestOK(r) /\ work[r].at = "idle"
  BY WorkTyped DEF UpdateJobPost, WorkAt, TaskOK
<1>2. /\ work' = [work EXCEPT ![r] = w] /\ needs' = {} /\ Overtaken(r) /\ Stale
      /\ UNCHANGED <<skills, aliases, links, matches, cv, made, told>>
  BY <1>1 DEF UpdateJobPost
<1>3. /\ w \in WorkRow /\ w.at = "fill" /\ w.left = work[r].left /\ w.names = work[r].names
      /\ w.rows = work[r].rows /\ w.twice = work[r].twice
      /\ w.profile = work[r].profile /\ w.copied = work[r].copied
  <2>1. chosen \in SUBSET SkillIds
    BY DEF Skills
  <2> QED
    BY <1>1, <2>1 DEF WorkRow, WorkSteps, WorkOps
<1>4. work'[r] = w
  BY <1>2 DEF TaxonomyInv, Beside
<1>5. TaskOK(r)' /\ KeepsCopies(r, w)
  BY <1>1, <1>3, <1>4
     DEF TaskOK, AddOK, MergeOK, MatchOK, RestOK, AddSteps, MatchSteps, KeepsCopies
<1>6. /\ TaxonomyKeyed' /\ Unused' /\ RowsLast
      /\ told' \subseteq Profile \X Name /\ \A x \in told' : Has(x[1], x[2])'
  BY <1>2, NeedsStep
<1> QED
  BY <1>2, <1>3, <1>5, <1>6, EditKeeps

\* ... and inserted.
LEMMA FillJobKeeps ==
  ASSUME TaxonomyInv, NEW r \in Request, FillJobPost(r)
  PROVE  TaxonomyInv'
<1>1. PICK w : w = EndedAs(work[r], "ok")
  OBVIOUS
<1>2. /\ work' = [work EXCEPT ![r] = w] /\ needs' = needs \cup (work[r].picked \cap Skills)
      /\ Overtaken(r) /\ Stale /\ work[r].at = "fill"
      /\ UNCHANGED <<skills, aliases, links, matches, cv, made, told>>
  BY <1>1 DEF FillJobPost, Finish, EndedAs, WorkAt
<1>3. /\ w \in WorkRow /\ w.at = "ok" /\ w.left = {} /\ w.twice = {}
      /\ w.profile = work[r].profile /\ w.copied = work[r].copied
  <2>1. work[r] \in WorkRow
    BY WorkTyped
  <2> QED
    BY <1>1, <2>1, EndedRow
<1>4. work'[r] = w
  BY <1>2 DEF TaxonomyInv, Beside
<1>5. TaskOK(r)' /\ KeepsCopies(r, w)
  BY <1>3, <1>4, EndedTask DEF KeepsCopies
<1>6. needs' \in SUBSET Skills
  BY <1>2 DEF TaxonomyInv, TaxonomyKeyed
<1>7. /\ TaxonomyKeyed' /\ Unused' /\ RowsLast
      /\ told' \subseteq Profile \X Name /\ \A x \in told' : Has(x[1], x[2])'
  BY <1>2, <1>6, NeedsStep
<1> QED
  BY <1>2, <1>3, <1>5, <1>7, EditKeeps

\* What a step of a calculation has to leave.
LEMMA MatchTask ==
  ASSUME NEW r, NEW w, work'[r] = w, w.profile \in Profile,
         w.profile \notin touched'[r] =>
           IF w.at = "job" THEN w.picked = SkillsOf(w.profile)' /\ w.called = Called(w.profile)'
           ELSE w.verdict = VerdictNow(w.profile)',
         w.profile \notin touched'[r] /\ w.at = "store" => w.loaded = matches'[w.profile]
  PROVE  MatchOK(r)'
  BY DEF MatchOK, SkillsOf, Links, Called, VerdictNow, Verdict

\* A calculation reads on.
LEMMA CalculationReads ==
  ASSUME TaxonomyInv, NEW r \in Request, NEW w \in WorkRow, work' = [work EXCEPT ![r] = w],
         UNCHANGED <<skills, aliases, links, needs, matches, cv, made, told, moved, outdated>>,
         touched' \in {touched, [touched EXCEPT ![r] = {}]},
         work[r].at \in MatchSteps \cup {"idle"}, w.at \in MatchSteps,
         w.left = work[r].left, w.names = work[r].names,
         w.rows = work[r].rows, w.twice = work[r].twice, KeepsCopies(r, w),
         NEW p \in Profile, w.profile = p,
         p \notin touched'[r] /\ w.at = "job" => w.picked = SkillsOf(p) /\ w.called = Called(p),
         p \notin touched'[r] /\ w.at # "job" => w.verdict = VerdictNow(p),
         p \notin touched'[r] /\ w.at = "store" => w.loaded = matches[p]
  PROVE  TaxonomyInv'
<1>1. work'[r] = w
  BY DEF TaxonomyInv, Beside
<1>2. MatchOK(r)'
  <2>1. SkillsOf(p)' = SkillsOf(p) /\ Called(p)' = Called(p) /\ VerdictNow(p)' = VerdictNow(p)
    BY DEF VerdictNow, Verdict, Called, SkillsOf, Links
  <2>2. /\ SkillsOf(w.profile)' = SkillsOf(p)' /\ Called(w.profile)' = Called(p)'
        /\ VerdictNow(w.profile)' = VerdictNow(p)'
    BY DEF VerdictNow, Verdict, Called, SkillsOf, Links
  <2>3. p \notin touched'[r] =>
           IF w.at = "job" THEN w.picked = SkillsOf(w.profile)' /\ w.called = Called(w.profile)'
           ELSE w.verdict = VerdictNow(w.profile)'
    BY <2>1, <2>2
  <2> QED
    BY <1>1, <2>3, MatchTask
<1>3. AddOK(r)' /\ MergeOK(r)' /\ RestOK(r)'
  <2>1. RestOK(r)
    BY WorkTyped DEF TaskOK
  <2> QED
    BY <1>1, <2>1 DEF AddOK, MergeOK, RestOK, AddSteps, MatchSteps
<1>4. TaskOK(r)'
  BY <1>2, <1>3 DEF TaskOK
<1>5. told' \subseteq Profile \X Name
  BY DEF TaxonomyInv, Beside
<1> QED
  BY <1>4, <1>5, QuietKeeps

\* The candidate is read.
LEMMA CalculateKeeps ==
  ASSUME TaxonomyInv, NEW r \in Request, NEW p \in Profile, NEW op \in {"match", "refresh"},
         CalculateMatch(r, p, op)
  PROVE  TaxonomyInv'
<1>1. PICK w : /\ w = [work[r] EXCEPT !.op = op, !.at = "job", !.profile = p,
                         !.picked = SkillsOf(p), !.called = Called(p)]
               /\ work[r] \in WorkRow /\ work[r].at = "idle" /\ work[r].copied = {}
  BY WorkTyped DEF CalculateMatch, WorkAt, TaskOK, RestOK
<1>2. /\ work' = [work EXCEPT ![r] = w] /\ touched' = [touched EXCEPT ![r] = {}]
      /\ UNCHANGED <<skills, aliases, links, needs, matches, cv, made, told, moved, outdated>>
  BY <1>1 DEF CalculateMatch, tables
<1>3. SkillsOf(p) \in SUBSET SkillIds /\ Called(p) \in SUBSET Name
  <2>1. SkillsOf(p) \subseteq Skills
    BY DEF SkillsOf, TaxonomyInv, TaxonomyKeyed
  <2>2. Called(p) \subseteq Name
    BY <2>1 DEF Called, Skills, TaxonomyInv, TaxonomyKeyed
  <2> QED
    BY <2>1, <2>2 DEF Skills
<1>4. /\ w \in WorkRow /\ w.at = "job" /\ w.left = work[r].left /\ w.names = work[r].names
      /\ w.rows = work[r].rows /\ w.twice = work[r].twice
      /\ w.profile = p /\ w.picked = SkillsOf(p) /\ w.called = Called(p) /\ w.copied = {}
  BY <1>1, <1>3 DEF WorkRow, WorkSteps, WorkOps
<1>5. KeepsCopies(r, w)
  BY <1>1, <1>4 DEF KeepsCopies
<1> QED
  BY <1>1, <1>2, <1>4, <1>5, CalculationReads DEF MatchSteps

\* The post is read.
LEMMA ReadJobKeeps ==
  ASSUME TaxonomyInv, NEW r \in Request, ReadJob(r)
  PROVE  TaxonomyInv'
<1>1. PICK w, p, v :
        /\ p = work[r].profile /\ v = Verdict(work[r].picked, work[r].called)
        /\ w = [work[r] EXCEPT !.at = IF work[r].op = "refresh" THEN "stored" ELSE "cached",
                  !.verdict = v, !.picked = {}, !.called = {}]
        /\ work[r] \in WorkRow /\ work[r].at = "job" /\ TaskOK(r)
        /\ work[r].picked \subseteq SkillIds
  BY WorkTyped DEF ReadJob, WorkAt
<1>2. /\ work' = [work EXCEPT ![r] = w]
      /\ UNCHANGED <<skills, aliases, links, needs, matches, cv, made, told, moved, outdated, touched>>
  BY <1>1 DEF ReadJob, Reads, tables
<1>3. v \in MatchRow
  <2>1. needs \subseteq SkillIds
    BY DEF TaxonomyInv, TaxonomyKeyed, Skills
  <2> QED
    BY <1>1, <2>1 DEF Verdict, MatchRow
<1>4. /\ w \in WorkRow /\ w.at \in {"stored", "cached"} /\ w.left = work[r].left
      /\ w.names = work[r].names /\ w.rows = work[r].rows /\ w.twice = work[r].twice
      /\ w.profile = p /\ w.verdict = v /\ w.copied = work[r].copied
  BY <1>1, <1>3, ZenonT(40) DEF WorkRow, WorkSteps
<1>5. p \in Profile /\ (p \notin touched[r] => v = VerdictNow(p))
  BY <1>1 DEF TaskOK, MatchOK, MatchSteps, VerdictNow
<1>6. /\ w.at \in MatchSteps /\ w.at # "job" /\ w.at # "store"
      /\ work[r].at \in MatchSteps /\ touched' = touched /\ KeepsCopies(r, w)
  BY <1>1, <1>2, <1>4 DEF MatchSteps, KeepsCopies
<1> QED
  BY <1>2, <1>4, <1>5, <1>6, CalculationReads

\* A stored match answers, if there is one.
LEMMA UseStoredKeeps ==
  ASSUME TaxonomyInv, NEW r \in Request, UseStored(r)
  PROVE  TaxonomyInv'
<1>1. PICK w, p :
        /\ p = work[r].profile /\ w = [work[r] EXCEPT !.at = "stored"]
        /\ work[r] \in WorkRow /\ work[r].at = "cached" /\ TaskOK(r)
        /\ UNCHANGED <<skills, aliases, links, needs, matches, cv, made, told, moved, outdated, touched>>
  BY WorkTyped DEF UseStored, WorkAt, Reads, tables
<1>2. told' \subseteq Profile \X Name
  BY <1>1 DEF TaxonomyInv, Beside
<1>3. CASE Finish(r, "ok")
  BY <1>1, <1>2, <1>3, EndKeeps
<1>4. CASE work' = [work EXCEPT ![r] = w]
  <2>1. /\ w \in WorkRow /\ w.at = "stored" /\ w.left = work[r].left /\ w.names = work[r].names
        /\ w.rows = work[r].rows /\ w.twice = work[r].twice
        /\ w.profile = p /\ w.verdict = work[r].verdict /\ w.copied = work[r].copied
    BY <1>1 DEF WorkRow, WorkSteps
  <2>2. p \in Profile /\ (p \notin touched[r] => work[r].verdict = VerdictNow(p))
    BY <1>1 DEF TaskOK, MatchOK, MatchSteps
  <2>3. /\ w.at \in MatchSteps /\ w.at # "job" /\ w.at # "store"
        /\ work[r].at \in MatchSteps /\ touched' = touched /\ told' = told /\ KeepsCopies(r, w)
    BY <1>1, <2>1 DEF MatchSteps, KeepsCopies
  <2> QED
    BY <1>1, <1>4, <2>1, <2>2, <2>3, CalculationReads, ZenonT(40)
<1> QED
  BY <1>1, <1>3, <1>4 DEF UseStored, WorkTo

\* The row to write is looked for.
LEMMA FindStoredKeeps ==
  ASSUME TaxonomyInv, NEW r \in Request, FindStored(r)
  PROVE  TaxonomyInv'
<1>1. PICK w, p :
        /\ p = work[r].profile
        /\ w = [work[r] EXCEPT !.at = "store", !.loaded = matches[p]]
        /\ work[r] \in WorkRow /\ work[r].at = "stored" /\ TaskOK(r)
  BY WorkTyped DEF FindStored, WorkAt
<1>2. /\ work' = [work EXCEPT ![r] = w]
      /\ UNCHANGED <<skills, aliases, links, needs, matches, cv, made, told, moved, outdated, touched>>
  BY <1>1 DEF FindStored, Reads, tables
<1>3. p \in Profile /\ (p \notin touched[r] => work[r].verdict = VerdictNow(p))
  BY <1>1 DEF TaskOK, MatchOK, MatchSteps
<1>4. matches[p] \in MatchRow
  BY <1>3 DEF TaxonomyInv, Beside
<1>5. /\ w \in WorkRow /\ w.at = "store" /\ w.left = work[r].left /\ w.names = work[r].names
      /\ w.rows = work[r].rows /\ w.twice = work[r].twice
      /\ w.profile = p /\ w.verdict = work[r].verdict /\ w.loaded = matches[p]
      /\ w.copied = work[r].copied
  BY <1>1, <1>4 DEF WorkRow, WorkSteps
<1>6. /\ w.at \in MatchSteps /\ w.at # "job"
      /\ work[r].at \in MatchSteps /\ touched' = touched /\ KeepsCopies(r, w)
  BY <1>1, <1>2, <1>5 DEF MatchSteps, KeepsCopies
<1> QED
  BY <1>2, <1>3, <1>5, <1>6, CalculationReads

\* The match is written.
LEMMA StoreKeeps ==
  ASSUME TaxonomyInv, NEW r \in Request, StoreMatch(r)
  PROVE  TaxonomyInv'
<1>1. PICK p, w, m :
        /\ p = work[r].profile /\ w = EndedAs(work[r], "ok") /\ m = Stored(r)
        /\ work[r] \in WorkRow /\ work[r].at = "store" /\ TaskOK(r)
        /\ UNCHANGED <<skills, aliases, links, needs, cv, made, told>>
  BY WorkTyped DEF StoreMatch, WorkAt
<1>2. CASE ~work[r].loaded.known /\ matches[p].known
  <2>1. /\ Finish(r, "failed") /\ told' = told
        /\ UNCHANGED <<skills, aliases, links, needs, matches, cv, made, moved, outdated, touched>>
    BY <1>1, <1>2 DEF StoreMatch
  <2>2. told' \subseteq Profile \X Name
    BY <2>1 DEF TaxonomyInv, Beside
  <2> QED
    BY <2>1, <2>2, EndKeeps
<1>3. CASE ~(~work[r].loaded.known /\ matches[p].known)
  <2>1. /\ matches' = [matches EXCEPT ![p] = m] /\ work' = [work EXCEPT ![r] = w]
        /\ moved' = moved
        /\ touched' = [q \in Request |-> IF q # r /\ Open(q) /\ matches'[p] # matches[p]
                                         THEN touched[q] \cup {p} ELSE touched[q]]
        /\ outdated' = IF p \in touched[r] THEN outdated \cup {p} ELSE outdated \ {p}
    BY <1>1, <1>3 DEF StoreMatch, Finish, EndedAs
  <2>2. /\ p \in Profile
        /\ p \notin touched[r] => work[r].verdict = VerdictNow(p) /\ work[r].loaded = matches[p]
    BY <1>1 DEF TaskOK, MatchOK, MatchSteps
  <2>3. /\ w \in WorkRow /\ w.at = "ok" /\ w.left = {} /\ w.twice = {}
        /\ w.profile = work[r].profile /\ w.copied = work[r].copied
    BY <1>1, EndedRow
  <2>4. /\ work'[r] = w /\ \A q \in Request \ {r} : work'[q] = work[q]
        /\ matches'[p] = m /\ \A q \in Profile \ {p} : matches'[q] = matches[q]
    BY <2>1, <2>2 DEF TaxonomyInv, Beside
  <2>5. m \in MatchRow /\ (p \notin touched[r] => m = VerdictNow(p))
    <3>1. work[r].verdict \in MatchRow /\ matches[p] \in MatchRow
      BY <1>1, <2>2 DEF TaxonomyInv, Beside, WorkRow
    <3> QED
      BY <1>1, <2>2, <3>1 DEF Stored
  <2>6. TaxonomyKeyed' /\ Unused'
    BY <1>1 DEF TaxonomyInv, TaxonomyKeyed, Unused, Skills, Links, UniqueLinks
  <2>7. Beside'
    <3>1. matches' \in [Profile -> MatchRow] /\ touched' \in [Request -> SUBSET Profile]
      BY <2>1, <2>2, <2>5 DEF TaxonomyInv, Beside
    <3>2. outdated' \in SUBSET Profile
      BY <2>1, <2>2 DEF TaxonomyInv, Beside
    <3> QED
      BY <1>1, <2>1, <2>3, <3>1, <3>2 DEF TaxonomyInv, Beside
  <2>8. /\ \A q : /\ SkillsOf(q)' = SkillsOf(q) /\ Called(q)' = Called(q)
                  /\ VerdictNow(q)' = VerdictNow(q)
        /\ \A n : Resolved(n)' = Resolved(n)
    BY <1>1 DEF VerdictNow, Verdict, Called, SkillsOf, Links, Resolved, Skills
  <2>9. Noticed(r) /\ RowsLast
    <3>1. ASSUME NEW q \in Request \ {r}
          PROVE  /\ touched[q] \subseteq touched'[q]
                 /\ Open(q) => \A c \in Profile \ touched'[q] : matches'[c] = matches[c]
      BY <2>1, <2>4
    <3>2. RowsLast
      BY <1>1 DEF RowsLast
    <3>3. /\ moved \subseteq moved'
          /\ \A q \in Request \ {r} : Open(q) /\ q \notin moved' =>
               /\ \A n \in work[q].names :
                    aliases'[n] = aliases[n] /\ (Resolved(n) # {} => Resolved(n)' = Resolved(n))
               /\ \A c \in {work[q].profile} \cap Profile : SkillsOf(c) \subseteq SkillsOf(c)'
      BY <1>1, <2>1, <2>8
    <3> QED
      BY <2>8, <3>1, <3>2, <3>3 DEF Noticed
  <2>10. \A q \in Request : TaskOK(q)'
    <3>1. \A q \in Request \ {r} : TaskOK(q)'
      BY <2>4, <2>9, TasksLast
    <3>2. TaskOK(r)'
      BY <2>3, <2>4, EndedTask
    <3> QED
      BY <3>1, <3>2
  <2>11. ExtractionCopied'
    <3>1. KeepsCopies(r, w)
      BY <2>3 DEF KeepsCopies
    <3> QED
      BY <1>1, <2>1, <3>1, CopiesLast
  <2>12. ToldIsHeld'
    <3>1. \A x \in told' : Has(x[1], x[2])'
      BY <1>1, <2>8, ToldStays
    <3> QED
      BY <2>11, <3>1 DEF ToldIsHeld, SkillsHeld
  <2>13. MatchExplained'
    <3>1. ASSUME NEW q \in Profile, matches'[q].known, q \notin outdated'
          PROVE  matches'[q] = VerdictNow(q)
      <4>1. CASE q = p
        BY <2>1, <2>4, <2>5, <3>1, <4>1
      <4>2. CASE q # p
        <5>1. matches[q] = matches'[q] /\ q \notin outdated
          BY <2>1, <2>4, <3>1, <4>2
        <5> QED
          BY <3>1, <5>1 DEF TaxonomyInv, MatchExplained
      <4> QED
        BY <4>1, <4>2
    <3> QED
      BY <2>8, <3>1 DEF MatchExplained
  <2> QED
    BY <2>6, <2>7, <2>10, <2>11, <2>12, <2>13 DEF TaxonomyInv
<1> QED
  BY <1>2, <1>3

\* A request fails.
LEMMA FailKeeps ==
  ASSUME TaxonomyInv, NEW r \in Request, WorkFails(r)
  PROVE  TaxonomyInv'
<1>1. /\ Finish(r, "failed") /\ told' = told
      /\ UNCHANGED <<skills, aliases, links, needs, matches, cv, made, moved, outdated, touched>>
  BY DEF WorkFails, tables
<1>2. told' \subseteq Profile \X Name
  BY <1>1 DEF TaxonomyInv, Beside
<1> QED
  BY <1>1, <1>2, EndKeeps

-----------------------------------------------------------------------------
(* The skill taxonomy: deleting and merging skills *)

\* Rows that go away or change to one skill do not hide behind the set of skills.
LEMMA RowsMove ==
  ASSUME TaxonomyKeyed, NEW t,
         \A l \in LinkIds : \/ links'[l] = NoLink
                            \/ links'[l] = links[l]
                            \/ l \in Links /\ links'[l] = [profile |-> links[l].profile, skill |-> t]
  PROVE  RowsLast
<1> SUFFICES ASSUME NEW p \in Profile, SkillsOf(p)' = SkillsOf(p), NEW l \in LinkIds
             PROVE  /\ links'[l].profile = p <=> links[l].profile = p
                    /\ links[l].profile = p => links'[l] = links[l]
  BY DEF RowsLast
<1>1. p # NoProfile /\ NoLink.profile = NoProfile /\ NoLink.skill = NoSkill
  BY TaxonomyIds DEF NoLink
<1>2. \A k \in LinkIds : links[k].profile = p => k \in Links /\ links[k] \in LinkRow
  BY <1>1, TaxonomyIds DEF TaxonomyKeyed, Links, LinkRow
<1>3. ASSUME NEW k \in LinkIds, links'[k].profile = p
      PROVE  /\ links[k].profile = p
             /\ links'[k] = links[k] \/ links'[k].skill = t
  <2>1. links'[k] # NoLink
    BY <1>1, <1>3
  <2>2. CASE links'[k] = links[k]
    BY <1>3, <2>2
  <2>3. CASE links'[k] = [profile |-> links[k].profile, skill |-> t]
    <3>1. links'[k].profile = links[k].profile /\ links'[k].skill = t
      BY <2>3
    <3> QED
      BY <1>3, <3>1
  <2> QED
    BY <2>1, <2>2, <2>3
<1>4. ASSUME NEW k \in LinkIds, links[k].profile = p
      PROVE  \E j \in LinkIds : /\ links'[j].profile = p /\ links'[j].skill = links[k].skill
                                /\ links[j].profile = p /\ links[j] \in LinkRow
                                /\ links'[j] = links[j] \/ links[k].skill = t
  <2>1. links[k].skill \in SkillsOf(p)'
    BY <1>2, <1>4 DEF SkillsOf
  <2>2. PICK j \in Links' : links'[j].profile = p /\ links'[j].skill = links[k].skill
    BY <2>1 DEF SkillsOf
  <2>3. j \in LinkIds /\ links[j].profile = p
    BY <1>3, <2>2 DEF Links
  <2>4. links[j] \in LinkRow
    BY <1>2, <2>3
  <2>5. links'[j] = links[j] \/ links[k].skill = t
    BY <1>3, <2>2, <2>3
  <2> QED
    BY <2>2, <2>3, <2>4, <2>5
<1>5. \A j, k \in LinkIds :
        /\ links[j].profile = p /\ links[k].profile = p /\ links[j].skill = links[k].skill
        => j = k
  <2> SUFFICES ASSUME NEW j \in LinkIds, NEW k \in LinkIds, links[j].profile = p,
                      links[k].profile = p, links[j].skill = links[k].skill
               PROVE  j = k
    OBVIOUS
  <2>0. links[j] \in LinkRow /\ links[k] \in LinkRow
    BY <1>2
  <2>1. links[j] = links[k] /\ links[j] # NoLink
    BY <2>0, TaxonomyIds DEF LinkRow
  <2> QED
    BY <2>1 DEF TaxonomyKeyed, UniqueLinks
<1>6. ASSUME links[l].profile = p PROVE links'[l] = links[l]
  <2>1. PICK j \in LinkIds : /\ links'[j].profile = p /\ links'[j].skill = links[l].skill
                             /\ links[j].profile = p /\ links[j] \in LinkRow
                             /\ links'[j] = links[j] \/ links[l].skill = t
    BY <1>4, <1>6
  <2>2. CASE links'[j] = links[j]
    BY <1>5, <1>6, <2>1, <2>2
  <2>3. CASE links'[j] # links[j]
    <3>1. links[l].skill = t /\ links[j].skill # t
      <4>1. links'[j] = [profile |-> links[j].profile, skill |-> t]
        BY <1>1, <2>1, <2>3
      <4>2. links[j].skill = t => links[j] = links'[j]
        BY <2>1, <4>1 DEF LinkRow
      <4> QED
        BY <2>1, <2>3, <4>2
    <3>2. PICK k \in LinkIds : /\ links'[k].profile = p /\ links'[k].skill = links[j].skill
                               /\ links[k].profile = p /\ links[k] \in LinkRow
                               /\ links'[k] = links[k] \/ links[j].skill = t
      BY <1>4, <2>1
    <3>3. links'[k] = links[k]
      BY <3>1, <3>2
    <3>4. k = j
      BY <1>5, <2>1, <3>2, <3>3
    <3> QED
      BY <2>3, <3>3, <3>4
  <2> QED
    BY <2>2, <2>3
<1> QED
  BY <1>3, <1>6

\* The row of a skill goes, with what refers to it.
LEMMA DropStep ==
  ASSUME TaxonomyKeyed, Unused, NEW s \in SkillIds, NEW L, NEW A, Drop(s, L, A), made' = made,
         L \in [LinkIds -> LinkRow \cup {NoLink}], UniqueLinks(L),
         \A l \in LinkIds : L[l] # NoLink => l \in Links /\ L[l].skill \in Skills,
         A \in [Name -> Skills \cup {NoSkill}]
  PROVE  /\ TaxonomyKeyed' /\ Unused' /\ Skills' = Skills \ {s}
         /\ \A v \in SkillIds \ {s} : skills'[v] = skills[v]
         /\ \A l \in LinkIds : links'[l] = IF L[l].skill = s THEN NoLink ELSE L[l]
         /\ \A n \in Name : aliases'[n] = IF A[n] = s THEN NoSkill ELSE A[n]
<1>1. /\ skills' = [skills EXCEPT ![s] = NoName]
      /\ \A l \in LinkIds : links'[l] = IF L[l].skill = s THEN NoLink ELSE L[l]
      /\ links' \in [LinkIds -> LinkRow \cup {NoLink}]
      /\ \A n \in Name : aliases'[n] = IF A[n] = s THEN NoSkill ELSE A[n]
      /\ aliases' \in [Name -> (Skills \ {s}) \cup {NoSkill}]
      /\ needs' = needs \ {s}
  BY DEF Drop
<1>2. /\ skills' \in [SkillIds -> Name \cup {NoName}] /\ skills'[s] = NoName
      /\ \A v \in SkillIds \ {s} : skills'[v] = skills[v]
  BY <1>1 DEF TaxonomyKeyed
<1>3. Skills' = Skills \ {s}
  BY <1>2 DEF Skills
<1>4. \A l \in Links' : l \in Links /\ links'[l].skill \in Skills \ {s} /\ links'[l] = L[l]
  <2> SUFFICES ASSUME NEW l \in LinkIds, links'[l].skill # NoSkill
               PROVE  l \in Links /\ links'[l].skill \in Skills \ {s} /\ links'[l] = L[l]
    BY DEF Links
  <2>1. links'[l] = L[l] /\ L[l].skill # s /\ L[l] # NoLink
    BY <1>1 DEF NoLink
  <2> QED
    BY <2>1
<1>5. UniqueLinks(links')
  BY <1>1 DEF UniqueLinks
<1>6. TaxonomyKeyed'
  <2>1. \A v, u \in Skills' : skills'[v] = skills'[u] => v = u
    BY <1>2, <1>3 DEF TaxonomyKeyed, Skills
  <2>2. needs' \in SUBSET Skills'
    BY <1>1, <1>3 DEF TaxonomyKeyed
  <2> QED
    BY <1>1, <1>2, <1>3, <1>4, <1>5, <2>1, <2>2 DEF TaxonomyKeyed
<1>7. Unused'
  BY <1>3, <1>4 DEF Unused
<1> QED
  BY <1>1, <1>2, <1>3, <1>6, <1>7

\* A skill is deleted.
LEMMA DeleteSkillKeeps ==
  ASSUME TaxonomyInv, NEW r \in Request, NEW s \in SkillIds, DeleteTaxonomySkill(r, s)
  PROVE  TaxonomyInv'
<1>1. /\ OneStep(r, "deleteSkill") /\ Drop(s, links, aliases)
      /\ UNCHANGED <<matches, cv, made>> /\ Excused /\ Overtaken(r) /\ Stale
  BY DEF DeleteTaxonomySkill
<1>2. TaxonomyKeyed /\ Unused
  BY DEF TaxonomyInv
<1>3. \A l \in LinkIds : links[l] # NoLink => l \in Links /\ links[l].skill \in Skills
  <2>1. \A l \in LinkIds : links[l] # NoLink => l \in Links
    BY <1>2, TaxonomyIds DEF TaxonomyKeyed, Links, LinkRow
  <2> QED
    BY <1>2, <2>1 DEF TaxonomyKeyed
<1>4. /\ TaxonomyKeyed' /\ Unused'
      /\ \A l \in LinkIds : links'[l] = IF links[l].skill = s THEN NoLink ELSE links[l]
  <2>1. /\ links \in [LinkIds -> LinkRow \cup {NoLink}] /\ UniqueLinks(links)
        /\ aliases \in [Name -> Skills \cup {NoSkill}]
    BY <1>2 DEF TaxonomyKeyed
  <2> QED
    BY <1>1, <1>2, <1>3, <2>1, DropStep
<1>5. RowsLast
  BY <1>2, <1>4, RowsMove
<1>6. told' \subseteq Profile \X Name /\ \A x \in told' : Has(x[1], x[2])'
  BY <1>1, ExcusedHolds
<1>7. "deleteSkill" \in WorkOps \ {"verify"}
  BY DEF WorkOps
<1> QED
  BY <1>1, <1>4, <1>5, <1>6, <1>7, OneStepKeeps

\* Both skills of a merge are read.
LEMMA MergeBeginKeeps ==
  ASSUME TaxonomyInv, NEW r \in Request, NEW s \in SkillIds, NEW t \in SkillIds,
         MergeSkills(r, s, t)
  PROVE  TaxonomyInv'
<1>1. PICK w, n :
        /\ n = skills[s]
        /\ w = [work[r] EXCEPT !.op = "merge", !.at = "snapshot", !.skill = s, !.target = t,
                               !.name = n]
        /\ work[r] \in WorkRow /\ work[r].at = "idle" /\ RestOK(r)
  BY WorkTyped DEF MergeSkills, WorkAt, TaskOK
<1>2. /\ work' = [work EXCEPT ![r] = w] /\ s # t /\ s \in Skills
      /\ UNCHANGED <<skills, aliases, links, needs, matches, cv, made, told, moved, outdated, touched>>
  BY <1>1 DEF MergeSkills, Reads, tables
<1>3. n \in Name
  BY <1>1, <1>2 DEF TaxonomyInv, TaxonomyKeyed, Skills
<1>4. /\ w \in WorkRow /\ w.at = "snapshot" /\ w.left = work[r].left /\ w.names = work[r].names
      /\ w.rows = work[r].rows /\ w.twice = work[r].twice
      /\ w.profile = work[r].profile /\ w.copied = work[r].copied
      /\ w.skill = s /\ w.target = t /\ w.name = n
  BY <1>1, <1>3 DEF WorkRow, WorkSteps, WorkOps
<1>5. work'[r] = w
  BY <1>2 DEF TaxonomyInv, Beside
<1>6. TaskOK(r)' /\ KeepsCopies(r, w)
  BY <1>1, <1>2, <1>3, <1>4, <1>5
     DEF TaskOK, AddOK, MergeOK, MatchOK, RestOK, AddSteps, MatchSteps, KeepsCopies
<1>7. told' \subseteq Profile \X Name
  BY <1>2 DEF TaxonomyInv, Beside
<1> QED
  BY <1>2, <1>4, <1>6, <1>7, QuietKeeps

\* The transaction of a merge reads the rows it will write.
LEMMA SnapshotKeeps ==
  ASSUME TaxonomyInv, NEW r \in Request, MergeSnapshot(r)
  PROVE  TaxonomyInv'
<1>1. PICK w, s, t, rows, twice, b :
        /\ s = work[r].skill /\ t = work[r].target
        /\ rows = LinksTo(s) /\ twice = {l \in rows : t \in SkillsOf(links[l].profile)}
        /\ b = (aliases[work[r].name] # NoSkill)
        /\ w = [work[r] EXCEPT !.at = "apply", !.rows = rows, !.twice = twice, !.seen = b]
        /\ work[r] \in WorkRow /\ work[r].at = "snapshot" /\ TaskOK(r)
  BY WorkTyped, ZenonT(40) DEF MergeSnapshot, WorkAt
<1>2. /\ work' = [work EXCEPT ![r] = w] /\ touched' = [touched EXCEPT ![r] = {}]
      /\ UNCHANGED <<skills, aliases, links, needs, matches, cv, made, told, moved, outdated>>
  BY <1>1 DEF MergeSnapshot, tables
<1>3. /\ s \in SkillIds /\ t \in SkillIds /\ s # t /\ work[r].name \in Name
      /\ work[r].left \subseteq work[r].names
  BY <1>1 DEF TaskOK, MergeOK, RestOK
<1>4. rows \in SUBSET LinkIds /\ twice \in SUBSET LinkIds /\ twice \subseteq rows /\ b \in BOOLEAN
  BY <1>1 DEF LinksTo, Links
<1>5. /\ w \in WorkRow /\ w.at = "apply" /\ w.left = work[r].left /\ w.names = work[r].names
      /\ w.rows = rows /\ w.twice = twice
      /\ w.profile = work[r].profile /\ w.copied = work[r].copied
      /\ w.skill = s /\ w.target = t /\ w.name = work[r].name
  <2>1. /\ w = [work[r] EXCEPT !.at = "apply", !.rows = rows, !.twice = twice, !.seen = b]
        /\ work[r] \in WorkRow /\ s = work[r].skill /\ t = work[r].target
        /\ rows \in SUBSET LinkIds /\ twice \in SUBSET LinkIds /\ b \in BOOLEAN
    BY <1>1, <1>4
  <2> QED
    BY <2>1 DEF WorkRow, WorkSteps
<1>6. work'[r] = w
  BY <1>2 DEF TaxonomyInv, Beside
<1>7. ASSUME NEW p \in Profile PROVE KnowsRows(r, p)'
  <2>1. SkillsOf(p)' = SkillsOf(p)
    BY <1>2 DEF SkillsOf, Links
  <2>2. ASSUME NEW l \in LinkIds, links[l].profile = p
        PROVE  /\ l \in rows <=> links[l].skill = s
               /\ l \in twice <=> links[l].skill = s /\ t \in SkillsOf(p)
    <3>1. l \in rows <=> links[l].skill = s
      BY <1>1, <1>3, TaxonomyIds DEF LinksTo, Links
    <3>2. l \in twice <=> l \in rows /\ t \in SkillsOf(p)
      BY <1>1, <2>2
    <3> QED
      BY <3>1, <3>2
  <2> QED
    BY <1>2, <1>5, <1>6, <2>1, <2>2 DEF KnowsRows
<1>8. MergeOK(r)'
  BY <1>3, <1>5, <1>6, <1>7 DEF MergeOK
<1>9. TaskOK(r)' /\ KeepsCopies(r, w)
  BY <1>1, <1>3, <1>4, <1>5, <1>6, <1>8
     DEF TaskOK, AddOK, MatchOK, RestOK, AddSteps, MatchSteps, KeepsCopies
<1>10. told' \subseteq Profile \X Name
  BY <1>2 DEF TaxonomyInv, Beside
<1> QED
  BY <1>2, <1>5, <1>9, <1>10, QuietKeeps

\* What a merge that commits writes.
LEMMA MergeWrites ==
  ASSUME TaxonomyInv, NEW r \in Request, work[r].at = "apply", Mergeable(r), made' = made,
         Drop(work[r].skill, Repointed(r), Realiased(r)),
         NEW s, NEW t, s = work[r].skill, t = work[r].target
  PROVE  /\ TaxonomyKeyed' /\ Unused' /\ RowsLast
         /\ s \in SkillIds /\ t \in SkillIds /\ s # t
         /\ Skills' = Skills \ {s} /\ \A v \in SkillIds \ {s} : skills'[v] = skills[v]
         /\ aliases' = Realiased(r)
         /\ \A l \in LinkIds : links'[l] = IF Repointed(r)[l].skill = s THEN NoLink
                                           ELSE Repointed(r)[l]
<1>1. /\ TaxonomyKeyed /\ Unused /\ TaskOK(r)
      /\ work[r].rows \subseteq LinkIds
  BY WorkTyped DEF TaxonomyInv
<1>2. s \in SkillIds /\ t \in SkillIds /\ s # t /\ s # NoSkill /\ t # NoSkill
  BY <1>1, TaxonomyIds DEF TaskOK, MergeOK
<1>3. PICK L, A : L = Repointed(r) /\ A = Realiased(r)
  OBVIOUS
<1>4. /\ links \in [LinkIds -> LinkRow \cup {NoLink}] /\ aliases \in [Name -> Skills \cup {NoSkill}]
      /\ UniqueLinks(L)
      /\ t \in Skills \/ (L = [l \in LinkIds |-> IF l \in work[r].twice THEN NoLink ELSE links[l]]
                          /\ A = aliases)
  BY <1>1, <1>3 DEF TaxonomyKeyed, Mergeable
<1>5. \A l \in LinkIds :
        \/ L[l] = NoLink \/ L[l] = links[l]
        \/ l \in Links /\ t \in Skills /\ L[l] = [profile |-> links[l].profile, skill |-> t]
           /\ links[l] \in LinkRow
  <2> SUFFICES ASSUME NEW l \in LinkIds, L[l] # NoLink, L[l] # links[l]
               PROVE  /\ l \in Links /\ t \in Skills /\ links[l] \in LinkRow
                      /\ L[l] = [profile |-> links[l].profile, skill |-> t]
    OBVIOUS
  <2>1. l \in Links /\ L[l] = [links[l] EXCEPT !.skill = t]
    BY <1>3 DEF Repointed
  <2>2. t \in Skills
    BY <1>4
  <2>3. links[l] \in LinkRow
    BY <1>4, <2>1, TaxonomyIds DEF Links, NoLink
  <2> QED
    BY <2>1, <2>2, <2>3 DEF LinkRow
<1>6. \A l \in LinkIds : links[l] # NoLink => l \in Links /\ links[l].skill \in Skills
  <2>1. \A l \in LinkIds : links[l] # NoLink => l \in Links
    BY <1>4, TaxonomyIds DEF Links, LinkRow
  <2> QED
    BY <1>1, <2>1 DEF TaxonomyKeyed
<1>7. /\ L \in [LinkIds -> LinkRow \cup {NoLink}]
      /\ \A l \in LinkIds : L[l] # NoLink => l \in Links /\ L[l].skill \in Skills
  <2>1. ASSUME NEW l \in LinkIds, L[l] # NoLink
        PROVE  L[l] \in LinkRow /\ l \in Links /\ L[l].skill \in Skills
    <3>1. CASE L[l] = links[l]
      BY <1>4, <1>6, <2>1, <3>1
    <3>2. CASE L[l] # links[l]
      <4>1. /\ l \in Links /\ t \in Skills /\ links[l] \in LinkRow
            /\ L[l] = [profile |-> links[l].profile, skill |-> t]
        BY <1>5, <2>1, <3>2
      <4>2. links[l].profile \in Profile
        BY <4>1 DEF LinkRow
      <4> QED
        BY <1>2, <4>1, <4>2 DEF LinkRow
    <3> QED
      BY <3>1, <3>2
  <2>2. L = [l \in LinkIds |-> L[l]]
    BY <1>3 DEF Repointed
  <2> QED
    BY <2>1, <2>2
<1>8. A \in [Name -> Skills \cup {NoSkill}]
  <2>1. CASE t \in Skills
    BY <1>3, <1>4, <2>1 DEF Realiased
  <2>2. CASE t \notin Skills
    BY <1>4, <2>2
  <2> QED
    BY <2>1, <2>2
<1>9. /\ TaxonomyKeyed' /\ Unused' /\ Skills' = Skills \ {s}
      /\ \A v \in SkillIds \ {s} : skills'[v] = skills[v]
      /\ \A l \in LinkIds : links'[l] = IF L[l].skill = s THEN NoLink ELSE L[l]
      /\ \A n \in Name : aliases'[n] = IF A[n] = s THEN NoSkill ELSE A[n]
  <2>1. Drop(s, L, A)
    BY <1>3
  <2> QED
    BY <1>1, <1>2, <1>4, <1>7, <1>8, <2>1, DropStep
<1>10. aliases' = A
  <2>1. \A n \in Name : A[n] # s
    BY <1>2, <1>3 DEF Realiased
  <2>2. aliases' = [n \in Name |-> aliases'[n]] /\ A = [n \in Name |-> A[n]]
    BY <1>8, <1>9 DEF TaxonomyKeyed
  <2> QED
    BY <1>9, <2>1, <2>2
<1>11. RowsLast
  <2>1. \A l \in LinkIds : \/ links'[l] = NoLink
                           \/ links'[l] = links[l]
                           \/ l \in Links /\ links'[l] = [profile |-> links[l].profile, skill |-> t]
    BY <1>5, <1>9
  <2> QED
    BY <1>1, <2>1, RowsMove
<1> QED
  BY <1>2, <1>3, <1>9, <1>10, <1>11

\* A candidate nothing has happened to since the transaction read the rows keeps
\* every skill, the target in the place of the source.
LEMMA MergeHolds ==
  ASSUME TaxonomyInv, NEW r \in Request, work[r].at = "apply",
         NEW s \in SkillIds, NEW t \in SkillIds, s = work[r].skill, t = work[r].target, s # t,
         \A l \in LinkIds : links'[l] = IF Repointed(r)[l].skill = s THEN NoLink
                                        ELSE Repointed(r)[l],
         NEW p \in Profile \ touched[r]
  PROVE  /\ SkillsOf(p) \ {s} \subseteq SkillsOf(p)'
         /\ s \in SkillsOf(p) => t \in SkillsOf(p)'
<1>1. KnowsRows(r, p) /\ TaxonomyKeyed
  BY WorkTyped DEF TaskOK, MergeOK, TaxonomyInv
<1>2. s # NoSkill /\ t # NoSkill
  BY TaxonomyIds
<1>3. ASSUME NEW l \in Links, links[l].profile = p
      PROVE  /\ links[l].skill # s => links'[l] = links[l]
             /\ links[l].skill = s => \/ t \in SkillsOf(p)
                                      \/ links'[l].profile = p /\ links'[l].skill = t
  <2>1. /\ l \in work[r].rows <=> links[l].skill = s
        /\ l \in work[r].twice <=> links[l].skill = s /\ t \in SkillsOf(p)
    BY <1>1, <1>3 DEF KnowsRows, Links
  <2>2. CASE links[l].skill # s
    <3>1. Repointed(r)[l] = links[l]
      BY <2>1, <2>2 DEF Repointed, Links
    <3> QED
      BY <2>2, <3>1 DEF Links
  <2>3. CASE links[l].skill = s /\ t \notin SkillsOf(p)
    <3>1. Repointed(r)[l] = [links[l] EXCEPT !.skill = t]
      BY <2>1, <2>3 DEF Repointed, Links
    <3>2. links[l] \in LinkRow
      BY <1>1, TaxonomyIds DEF TaxonomyKeyed, Links, NoLink
    <3>3. Repointed(r)[l].skill = t /\ Repointed(r)[l].profile = p
      BY <1>3, <3>1, <3>2 DEF LinkRow
    <3> QED
      BY <2>3, <3>3 DEF Links
  <2> QED
    BY <2>2, <2>3
<1>4. SkillsOf(p) \ {s} \subseteq SkillsOf(p)'
  <2> SUFFICES ASSUME NEW u \in SkillsOf(p), u # s PROVE u \in SkillsOf(p)'
    OBVIOUS
  <2>1. PICK l \in Links : links[l].profile = p /\ links[l].skill = u
    BY DEF SkillsOf
  <2>2. links'[l] = links[l]
    BY <1>3, <2>1
  <2> QED
    BY <2>1, <2>2 DEF SkillsOf, Links
<1>5. ASSUME s \in SkillsOf(p) PROVE t \in SkillsOf(p)'
  <2>1. PICK l \in Links : links[l].profile = p /\ links[l].skill = s
    BY <1>5 DEF SkillsOf
  <2>2. CASE t \in SkillsOf(p)
    BY <1>4, <2>2
  <2>3. CASE t \notin SkillsOf(p)
    <3>1. links'[l].profile = p /\ links'[l].skill = t
      BY <1>3, <2>1, <2>3
    <3>2. l \in Links'
      BY <1>2, <3>1 DEF Links
    <3> QED
      BY <3>1, <3>2 DEF SkillsOf
  <2> QED
    BY <2>2, <2>3
<1> QED
  BY <1>4, <1>5

\* What is not excused, the candidate still has.
LEMMA MergeTells ==
  ASSUME TaxonomyInv, NEW r \in Request, work[r].at = "apply", Mergeable(r),
         NEW s \in SkillIds, NEW t \in SkillIds, s = work[r].skill, t = work[r].target, s # t,
         Skills' = Skills \ {s}, \A v \in SkillIds \ {s} : skills'[v] = skills[v],
         aliases' = Realiased(r),
         NEW p \in Profile, NEW n \in Name, Has(p, n), ~MergeExcuses(r, p, n),
         SkillsOf(p) \ {s} \subseteq SkillsOf(p)', s \in SkillsOf(p) => t \in SkillsOf(p)'
  PROVE  Has(p, n)'
<1>1. /\ aliases \in [Name -> Skills \cup {NoSkill}] /\ s # NoSkill /\ t # NoSkill
      /\ \A v \in SkillIds : skills[v] # NoName <=> v \in Skills
  BY TaxonomyIds DEF TaxonomyInv, TaxonomyKeyed, Skills
<1>2. PICK m, seen : m = work[r].name /\ seen = work[r].seen
  OBVIOUS
<1>3. m \in Name /\ m # NoName
  BY <1>2, WorkTyped, TaxonomyIds DEF TaskOK, MergeOK
<1>4. /\ ~seen => aliases[m] \in {NoSkill, s}
      /\ skills[s] # m => n # m /\ n # skills[s]
      /\ n = m => ~(seen /\ aliases[m] = NoSkill)
  BY <1>2 DEF Mergeable, MergeExcuses
<1>5. aliases'[n] = IF aliases[n] = s \/ (n = m /\ ~seen) THEN t ELSE aliases[n]
  BY <1>2 DEF Realiased
<1>6. CASE aliases[n] # NoSkill
  <2>1. Resolved(n) = {aliases[n]}
    BY <1>6 DEF Resolved
  <2>2. aliases'[n] = IF aliases[n] = s THEN t ELSE aliases[n]
    BY <1>4, <1>5, <1>6
  <2>3. Resolved(n)' = {aliases'[n]}
    BY <1>1, <1>6, <2>2 DEF Resolved
  <2>4. aliases[n] \in SkillsOf(p)
    BY <2>1 DEF Has
  <2> QED
    BY <2>2, <2>3, <2>4 DEF Has
<1>7. CASE aliases[n] = NoSkill /\ n = m
  <2>1. ~seen /\ skills[s] = n
    BY <1>4, <1>7
  <2>2. s \in Resolved(n)
    BY <1>1, <1>3, <1>7, <2>1 DEF Resolved
  <2>3. t \in SkillsOf(p)'
    BY <2>2 DEF Has
  <2>4. Resolved(n)' = {t}
    BY <1>1, <1>5, <1>7, <2>1 DEF Resolved
  <2> QED
    BY <2>3, <2>4 DEF Has
<1>8. CASE aliases[n] = NoSkill /\ n # m
  <2>1. aliases'[n] = NoSkill
    BY <1>1, <1>5, <1>8
  <2>2. skills[s] # n
    BY <1>4, <1>8
  <2>3. Resolved(n) = {v \in Skills : skills[v] = n} /\ s \notin Resolved(n)
    BY <1>8, <2>2 DEF Resolved
  <2>4. {v \in Skills' : skills'[v] = n} = {v \in Skills : skills[v] = n}
    BY <2>2 DEF Skills
  <2>5. Resolved(n)' = Resolved(n)
    BY <2>1, <2>3, <2>4 DEF Resolved
  <2> QED
    BY <2>3, <2>5 DEF Has
<1> QED
  BY <1>6, <1>7, <1>8

\* The transaction of a merge writes and commits, or is rolled back.
LEMMA ApplyKeeps ==
  ASSUME TaxonomyInv, NEW r \in Request, MergeApply(r)
  PROVE  TaxonomyInv'
<1>1. CASE ~Mergeable(r)
  <2>1. /\ Finish(r, "failed") /\ told' = told
        /\ UNCHANGED <<skills, aliases, links, needs, matches, cv, made, moved, outdated, touched>>
    BY <1>1 DEF MergeApply, tables
  <2>2. told' \subseteq Profile \X Name
    BY <2>1 DEF TaxonomyInv, Beside
  <2> QED
    BY <2>1, <2>2, EndKeeps
<1>2. CASE Mergeable(r)
  <2>1. PICK s, t, w : /\ s = work[r].skill /\ t = work[r].target
                       /\ w = EndedAs(work[r], "ok") /\ work[r].at = "apply"
    BY DEF MergeApply, WorkAt
  <2>2. /\ Drop(work[r].skill, Repointed(r), Realiased(r)) /\ UNCHANGED <<matches, cv, made>>
        /\ work' = [work EXCEPT ![r] = w] /\ Overtaken(r) /\ Stale
        /\ told' = {x \in told : Has(x[1], x[2])' \/ ~MergeExcuses(r, x[1], x[2])}
    BY <1>2, <2>1 DEF MergeApply, Finish, EndedAs
  <2>3. /\ TaxonomyKeyed' /\ Unused' /\ RowsLast
        /\ s \in SkillIds /\ t \in SkillIds /\ s # t
        /\ Skills' = Skills \ {s} /\ \A v \in SkillIds \ {s} : skills'[v] = skills[v]
        /\ aliases' = Realiased(r)
        /\ \A l \in LinkIds : links'[l] = IF Repointed(r)[l].skill = s THEN NoLink
                                          ELSE Repointed(r)[l]
    BY <1>2, <2>1, <2>2, MergeWrites
  <2>4. told \subseteq Profile \X Name /\ \A x \in told : Has(x[1], x[2])
    BY DEF TaxonomyInv, Beside, ToldIsHeld, SkillsHeld
  <2>5. ASSUME NEW x \in told' PROVE Has(x[1], x[2])'
    <3>1. /\ x \in told /\ Has(x[1], x[2])
          /\ Has(x[1], x[2])' \/ ~MergeExcuses(r, x[1], x[2])
      BY <2>2, <2>4
    <3>2. PICK p \in Profile, n \in Name : x = <<p, n>>
      BY <2>4, <3>1
    <3>3. ASSUME ~MergeExcuses(r, p, n) PROVE Has(p, n)'
      <4>1. p \notin touched[r]
        BY <3>3 DEF MergeExcuses
      <4>2. SkillsOf(p) \ {s} \subseteq SkillsOf(p)' /\ (s \in SkillsOf(p) => t \in SkillsOf(p)')
        BY <2>1, <2>3, <4>1, MergeHolds
      <4>3. Has(p, n)
        BY <3>1, <3>2
      <4> QED
        BY <1>2, <2>1, <2>3, <3>3, <4>2, <4>3, MergeTells
    <3>4. Has(p, n)'
      <4>1. CASE ~MergeExcuses(r, x[1], x[2])
        BY <3>2, <3>3, <4>1
      <4>2. CASE Has(x[1], x[2])'
        BY <3>2, <4>2 DEF Has, Resolved, Skills, SkillsOf, Links
      <4> QED
        BY <3>1, <4>1, <4>2
    <3> QED
      BY <3>2, <3>4 DEF Has, Resolved, Skills, SkillsOf, Links
  <2>6. told' \subseteq Profile \X Name
    BY <2>2, <2>4
  <2>7. /\ w \in WorkRow /\ w.at = "ok" /\ w.left = {} /\ w.twice = {}
        /\ w.profile = work[r].profile /\ w.copied = work[r].copied
    <3>1. work[r] \in WorkRow
      BY WorkTyped
    <3> QED
      BY <2>1, <3>1, EndedRow
  <2>8. work'[r] = w
    BY <2>2 DEF TaxonomyInv, Beside
  <2>9. TaskOK(r)' /\ KeepsCopies(r, w)
    BY <2>7, <2>8, EndedTask DEF KeepsCopies
  <2> QED
    BY <2>2, <2>3, <2>5, <2>6, <2>7, <2>9, EditKeeps
<1> QED
  BY <1>1, <1>2

-----------------------------------------------------------------------------
(* The skill taxonomy: the invariant holds *)

\* The invariant is true at the start.
LEMMA TaxonomyBegins ==
  ASSUME TaxonomyInit
  PROVE  TaxonomyInv
<1>1. PICK n \in (Name \cup {NoName}) \ {Second}, both, old \in BOOLEAN :
        /\ skills = [s \in SkillIds |-> CASE s = 1 -> First [] s = 2 -> Second [] OTHER -> NoName]
        /\ aliases = [m \in Name |-> IF m = n THEN 1 ELSE NoSkill]
        /\ links = [l \in LinkIds |-> IF l = 1 \/ (l = 2 /\ both)
                                      THEN [profile |-> Candidate, skill |-> l] ELSE NoLink]
        /\ made = [skills |-> 2, links |-> IF both THEN 2 ELSE 1]
        /\ needs = {1}
        /\ matches = [q \in Profile |-> [NoMatch EXCEPT !.known = old]]
        /\ cv = [q \in Profile |-> [copies |-> [e \in Experience |-> 0], verified |-> FALSE]]
        /\ work = [r \in Request |-> Idle]
        /\ told = {<<Candidate, First>>}
        /\ moved = {} /\ outdated = IF old THEN Profile ELSE {}
        /\ touched = [r \in Request |-> {}]
  BY DEF TaxonomyInit
<1>2. /\ 1 \in SkillIds /\ 2 \in SkillIds /\ 1 \in LinkIds /\ 2 \in LinkIds
      /\ 2 \in 0..MaxSkills /\ {1, 2} \subseteq 0..MaxLinks
      /\ First \in Name /\ Second \in Name /\ First # Second /\ Candidate \in Profile
      /\ NoName \notin Name /\ NoSkill = 0 /\ NoLink.skill = 0 /\ NoLink.profile = NoProfile
      /\ NoProfile \notin Profile
  BY TaxonomyAssumption DEF SkillIds, LinkIds, NoSkill, NoLink
<1>3. /\ skills \in [SkillIds -> Name \cup {NoName}] /\ Skills = {1, 2}
      /\ skills[1] = First /\ skills[2] = Second
  <2>1. skills[1] = First /\ skills[2] = Second
    BY <1>1, <1>2
  <2>2. \A s \in SkillIds : s \notin {1, 2} => skills[s] = NoName
    BY <1>1
  <2>3. skills = [s \in SkillIds |-> skills[s]]
    BY <1>1
  <2> QED
    BY <1>2, <2>1, <2>2, <2>3 DEF Skills
<1>4. /\ links[1] = [profile |-> Candidate, skill |-> 1]
      /\ links[2] = IF both THEN [profile |-> Candidate, skill |-> 2] ELSE NoLink
      /\ \A l \in LinkIds : l \notin {1, 2} => links[l] = NoLink
      /\ links = [l \in LinkIds |-> links[l]]
  BY <1>1, <1>2
<1>5. Links \subseteq {1, 2} /\ 1 \in Links /\ (2 \in Links => both)
  BY <1>2, <1>4 DEF Links
<1>6. TaxonomyKeyed
  <2>1. \A s, t \in Skills : skills[s] = skills[t] => s = t
    BY <1>2, <1>3
  <2>2. aliases \in [Name -> Skills \cup {NoSkill}] /\ needs \in SUBSET Skills
    BY <1>1, <1>3
  <2>3. links \in [LinkIds -> LinkRow \cup {NoLink}]
    <3>1. \A l \in LinkIds : links[l] \in LinkRow \cup {NoLink}
      BY <1>2, <1>4 DEF LinkRow
    <3> QED
      BY <1>4, <3>1
  <2>4. \A l \in Links : links[l].skill \in Skills
    BY <1>3, <1>4, <1>5
  <2>5. UniqueLinks(links)
    BY <1>2, <1>4 DEF UniqueLinks
  <2> QED
    BY <1>3, <2>1, <2>2, <2>3, <2>4, <2>5 DEF TaxonomyKeyed
<1>7. Unused
  <2>1. made \in [skills : 0..MaxSkills, links : 0..MaxLinks]
    BY <1>1, <1>2
  <2>2. \A l \in Links : l <= made.links
    BY <1>1, <1>5
  <2> QED
    BY <1>1, <1>3, <2>1, <2>2 DEF Unused
<1>8. Idle \in WorkRow /\ [NoMatch EXCEPT !.known = old] \in MatchRow
  BY DEF Idle, WorkRow, WorkOps, NoMatch, MatchRow
<1>9. Beside
  <2>1. /\ matches \in [Profile -> MatchRow] /\ work \in [Request -> WorkRow]
        /\ cv \in [Profile -> [copies : [Experience -> Nat], verified : BOOLEAN]]
    BY <1>1, <1>8
  <2>2. /\ told \in SUBSET (Profile \X Name) /\ moved \in SUBSET Request
        /\ outdated \in SUBSET Profile
    BY <1>1, <1>2
  <2>3. touched \in [Request -> SUBSET Profile]
    BY <1>1
  <2> QED
    BY <2>1, <2>2, <2>3 DEF Beside
<1>10. ExtractionCopied
  <2>1. \A p \in Profile, e \in Experience : Copiers(p, e) = {}
    BY <1>1 DEF Copiers, Idle
  <2>2. \A p \in Profile, e \in Experience : ~cv[p].verified /\ cv[p].copies[e] = 0
    BY <1>1
  <2> QED
    BY <2>1, <2>2, FS_EmptySet DEF ExtractionCopied
<1>11. ASSUME NEW r \in Request PROVE TaskOK(r)
  <2>1. work[r].at = "idle" /\ work[r].left = {} /\ work[r].twice = {} /\ work[r].copied = {}
    BY <1>1 DEF Idle
  <2> QED
    BY <2>1 DEF TaskOK, AddOK, MergeOK, MatchOK, RestOK, AddSteps, MatchSteps
<1>12. ToldIsHeld
  <2>0. links[1].profile = Candidate /\ links[1].skill = 1
    BY <1>4
  <2>1. 1 \in SkillsOf(Candidate)
    BY <1>5, <2>0 DEF SkillsOf
  <2>2. Resolved(First) = {1}
    <3>1. {s \in Skills : skills[s] = First} = {1}
      BY <1>2, <1>3
    <3>2. aliases[First] \in {1, NoSkill}
      BY <1>1, <1>2
    <3> QED
      BY <1>2, <3>1, <3>2 DEF Resolved
  <2>3. Has(Candidate, First)
    BY <2>1, <2>2 DEF Has
  <2>4. SkillsHeld
    BY <1>1, <2>3 DEF SkillsHeld
  <2> QED
    BY <1>10, <2>4 DEF ToldIsHeld
<1>13. MatchExplained
  BY <1>1 DEF MatchExplained, NoMatch
<1> QED
  BY <1>6, <1>7, <1>9, <1>11, <1>12, <1>13 DEF TaxonomyInv

\* Every step keeps the invariant.
LEMMA TaxonomyStepKeeps ==
  ASSUME TaxonomyInv, NEW r \in Request, TaxonomyStep(r)
  PROVE  TaxonomyInv'
<1>1. CASE CandidateStep(r)
  <2>1. ASSUME NEW p \in Profile, NEW n \in Name, AddCandidateSkill(r, p, n)
        PROVE  TaxonomyInv'
    BY <2>1, AddKeeps DEF AddCandidateSkill
  <2>2. ASSUME NEW p \in Profile, NEW ns \in SUBSET Name, VerifyExtraction(r, p, ns)
        PROVE  TaxonomyInv'
    BY <2>2, AddKeeps DEF VerifyExtraction
  <2> QED
    BY <1>1, <2>1, <2>2, ResolveKeeps, CreateMissingKeeps, LinkSkillKeeps, SaveLinkKeeps,
       CopyKeeps, MarkKeeps, SaveProfileKeeps, RemoveKeeps DEF CandidateStep
<1>2. CASE EditStep(r)
  BY <1>2, CreateSkillKeeps, NamesKeepTables, DeleteSkillKeeps, MergeBeginKeeps, SnapshotKeeps,
     ApplyKeeps DEF EditStep
<1>3. CASE MatchStep(r)
  BY <1>3, UpdateJobKeeps, FillJobKeeps, CalculateKeeps, ReadJobKeeps, UseStoredKeeps,
     FindStoredKeeps, StoreKeeps DEF MatchStep
<1> QED
  BY <1>1, <1>2, <1>3, FailKeeps DEF TaxonomyStep

\* Steps that change nothing of the taxonomy keep it too.
LEMMA TaxonomyKept ==
  ASSUME TaxonomyInv, [TaxonomyNext]_taxonomyVars
  PROVE  TaxonomyInv'
<1>1. CASE TaxonomyNext
  BY <1>1, TaxonomyStepKeeps DEF TaxonomyNext
<1>2. CASE UNCHANGED taxonomyVars
  <2>1. UNCHANGED <<skills, aliases, links, needs, matches, cv, made, work, told, moved, touched, outdated>>
    BY <1>2 DEF taxonomyVars, tables
  <2>2. /\ \A p : /\ SkillsOf(p)' = SkillsOf(p) /\ Called(p)' = Called(p)
                  /\ VerdictNow(p)' = VerdictNow(p)
        /\ \A p, n : Has(p, n)' <=> Has(p, n)
    BY <2>1 DEF VerdictNow, Verdict, Called, SkillsOf, Links, Has, Resolved, Skills
  <2>3. TaxonomyKeyed' /\ Unused' /\ Beside'
    BY <2>1 DEF TaxonomyInv, TaxonomyKeyed, Unused, Beside, Skills, Links, UniqueLinks
  <2>4. ToldIsHeld' /\ MatchExplained'
    BY <2>1 DEF TaxonomyInv, ToldIsHeld, SkillsHeld, ExtractionCopied, Copiers, MatchExplained,
                VerdictNow, Verdict, Called, SkillsOf, Links, Has, Resolved, Skills
  <2>5. \A r \in Request : TaskOK(r)'
    BY <2>1 DEF TaxonomyInv, TaskOK, AddOK, MergeOK, MatchOK, RestOK, KnowsRows, VerdictNow,
                Verdict, Called, SkillsOf, Links, Has, Resolved, Skills
  <2> QED
    BY <2>3, <2>4, <2>5 DEF TaxonomyInv
<1> QED
  BY <1>1, <1>2

\* What the invariant says of the types of the tables is the type invariant.
LEMMA TaxonomyTyped ==
  ASSUME TaxonomyInv
  PROVE  TaxonomyTypeOK
<1>1. TaxonomyKeyed /\ Unused /\ Beside
  BY DEF TaxonomyInv
<1>2. \A p \in Profile : /\ cv[p].copies \in [Experience -> 0..Cardinality(Request)]
                         /\ cv[p].verified \in BOOLEAN
  <2>1. ASSUME NEW p \in Profile, NEW e \in Experience
        PROVE  cv[p].copies[e] \in 0..Cardinality(Request)
    <3>1. Copiers(p, e) \subseteq Request
      BY DEF Copiers
    <3>2. /\ Cardinality(Copiers(p, e)) \in Nat /\ Cardinality(Request) \in Nat
          /\ Cardinality(Copiers(p, e)) <= Cardinality(Request)
      BY <3>1, TaxonomyIds, FS_Subset, FS_CardinalityType
    <3>3. cv[p].copies[e] = Cardinality(Copiers(p, e))
      BY DEF TaxonomyInv, ToldIsHeld, ExtractionCopied
    <3> QED
      BY <3>2, <3>3
  <2>2. \A p \in Profile : cv[p].copies \in [Experience -> Nat] /\ cv[p].verified \in BOOLEAN
    BY <1>1 DEF Beside
  <2> QED
    BY <2>1, <2>2
<1>3. ASSUME NEW r \in Request PROVE WorkRowOK(work[r])
  <2>1. work[r] \in WorkRow /\ RestOK(r)
    BY WorkTyped DEF TaskOK
  <2>2. DOMAIN work[r] = DOMAIN Idle
    BY <2>1 DEF WorkRow, Idle
  <2> QED
    BY <2>1, <2>2 DEF WorkRowOK, WorkRow, RestOK
<1> QED
  BY <1>1, <1>2, <1>3 DEF TaxonomyTypeOK, TaxonomyKeyed, Unused, Beside

\* The invariant holds in every state.
LEMMA TaxonomyInvHolds == TaxonomySpec => []TaxonomyInv
<1>1. TaxonomyInit /\ faults = 0 => TaxonomyInv
  BY TaxonomyBegins
<1>2. TaxonomyInv /\ [TaxonomyNext]_<<taxonomyVars, faults>> => TaxonomyInv'
  BY TaxonomyKept
<1> QED
  BY <1>1, <1>2, PTL DEF TaxonomySpec

\* The tables and the requests hold what they are declared to hold, and rows refer to
\* rows that are there.
THEOREM TaxonomyTypesAreKept == TaxonomySpec => []TaxonomyTypeOK
  BY TaxonomyInvHolds, TaxonomyTyped, PTL

\* A candidate keeps what the service said was added, whatever is merged.
THEOREM ToldStaysHeld == TaxonomySpec => []ToldIsHeld
<1>1. TaxonomyInv => ToldIsHeld
  BY DEF TaxonomyInv
<1> QED
  BY <1>1, TaxonomyInvHolds, PTL

\* A stored match is what a calculation would find now, unless something overtook it.
THEOREM MatchesAreExplained == TaxonomySpec => []MatchExplained
<1>1. TaxonomyInv => MatchExplained
  BY DEF TaxonomyInv
<1> QED
  BY <1>1, TaxonomyInvHolds, PTL

-----------------------------------------------------------------------------
(* The mentor's conversation: what a send reads *)

Preceding(S, m) == {o \in S : o.id < m.id}

UniqueIds(S) == \A m, o \in S : m.id = o.id => m = o

\* A set of rows has a first one.
LEMMA FirstExists ==
  ASSUME NEW T, T # {}, \A m \in T : m.id \in Nat
  PROVE  \E m \in T : \A o \in T : m.id <= o.id
<1> DEFINE K == {m.id : m \in T}
           R == OpToRel(<, Nat)
<1>1. K \subseteq Nat /\ K # {}
  OBVIOUS
<1>2. IsWellFoundedOn(R, Nat)
  BY NatLessThanWellFounded
<1>3. \A x, y \in Nat : <<y, x>> \in R <=> y < x
  BY DEF OpToRel
<1> HIDE DEF R, K
<1>4. PICK x \in K : \A y \in K : ~(<<y, x>> \in R)
  BY <1>1, <1>2, WFMin
<1>5. ASSUME NEW y \in K PROVE x <= y
  <2>1. x \in Nat /\ y \in Nat /\ ~(<<y, x>> \in R)
    BY <1>1, <1>4
  <2>2. ~(y < x)
    BY <1>3, <2>1, Zenon
  <2> QED
    BY <2>1, <2>2
<1> QED
  BY <1>4, <1>5 DEF K

\* And a last one, when ids are bounded.
LEMMA LastExists ==
  ASSUME NEW T, T # {}, NEW N \in Nat, \A m \in T : m.id \in 0..N
  PROVE  \E m \in T : \A o \in T : o.id <= m.id
<1> DEFINE K == {N - m.id : m \in T}
           R == OpToRel(<, Nat)
<1>1. K \subseteq Nat /\ K # {}
  OBVIOUS
<1>2. IsWellFoundedOn(R, Nat)
  BY NatLessThanWellFounded
<1>3. \A x, y \in Nat : <<y, x>> \in R <=> y < x
  BY DEF OpToRel
<1> HIDE DEF R, K
<1>4. PICK x \in K : \A y \in K : ~(<<y, x>> \in R)
  BY <1>1, <1>2, WFMin
<1>5. ASSUME NEW y \in K PROVE x <= y
  <2>1. x \in Nat /\ y \in Nat /\ ~(<<y, x>> \in R)
    BY <1>1, <1>4
  <2>2. ~(y < x)
    BY <1>3, <2>1, Zenon
  <2> QED
    BY <2>1, <2>2
<1>6. PICK m \in T : x = N - m.id
  BY <1>4 DEF K
<1>7. ASSUME NEW o \in T PROVE o.id <= m.id
  <2>1. N - m.id <= N - o.id
    BY <1>5, <1>6 DEF K
  <2>2. m.id \in Nat /\ o.id \in Nat
    OBVIOUS
  <2> QED
    BY <2>1, <2>2
<1> QED
  BY <1>7

\* What a send reads is a beginning of the history, and all of it unless that has
\* more messages than are read.
LEMMA FirstFills ==
  ASSUME NEW S, IsFiniteSet(S), NEW N \in Nat, \A m \in S : m.id \in 0..N, UniqueIds(S)
  PROVE  /\ FirstOf(S) \subseteq S
         /\ \A m \in FirstOf(S), o \in S : o.id < m.id => o \in FirstOf(S)
         /\ FirstOf(S) = S \/ Cardinality(FirstOf(S)) = HistoryLimit
<1> DEFINE H == FirstOf(S)
<1>0. HistoryLimit \in Nat
  BY HistoryLimitAssumption
<1>1. H \subseteq S /\ \A m \in S : m \in H <=> Cardinality(Preceding(S, m)) < HistoryLimit
  BY DEF FirstOf, Preceding
<1> HIDE DEF H
<1>2. \A m \in S : IsFiniteSet(Preceding(S, m)) /\ Cardinality(Preceding(S, m)) \in Nat
  <2> TAKE m \in S
  <2>1. Preceding(S, m) \in SUBSET S
    BY DEF Preceding
  <2>2. IsFiniteSet(Preceding(S, m))
    BY <2>1, FS_Subset
  <2> QED
    BY <2>2, FS_CardinalityType
<1>3. ASSUME NEW m \in S, NEW o \in S, o.id <= m.id
      PROVE  Cardinality(Preceding(S, o)) <= Cardinality(Preceding(S, m))
  <2>1. Preceding(S, o) \in SUBSET Preceding(S, m)
    BY <1>3 DEF Preceding
  <2> QED
    BY <1>2, <2>1, FS_Subset
<1>4. ASSUME NEW m \in H, NEW o \in S, o.id < m.id PROVE o \in H
  <2>1. m \in S /\ o.id <= m.id
    BY <1>1, <1>4
  <2>2. Cardinality(Preceding(S, o)) <= Cardinality(Preceding(S, m))
    BY <1>3, <2>1
  <2> QED
    BY <1>0, <1>1, <1>2, <2>1, <2>2
<1>5. ASSUME H # S PROVE Cardinality(H) = HistoryLimit
  <2>1. PICK m \in S \ H : \A o \in S \ H : m.id <= o.id
    <3>1. S \ H # {} /\ \A x \in S \ H : x.id \in Nat
      BY <1>1, <1>5
    <3> QED
      BY <3>1, FirstExists
  <2>2. H = Preceding(S, m)
    <3>1. ASSUME NEW o \in H PROVE o.id < m.id
      <4>1. o \in S /\ o.id \in Nat /\ m.id \in Nat
        BY <1>1
      <4>2. CASE m.id <= o.id
        <5>1. Cardinality(Preceding(S, m)) <= Cardinality(Preceding(S, o))
          BY <1>3, <4>1, <4>2
        <5> QED
          BY <1>0, <1>1, <1>2, <4>1, <5>1
      <4> QED
        BY <4>1, <4>2
    <3>2. ASSUME NEW o \in S, o.id < m.id PROVE o \in H
      <4>1. o.id \in Nat /\ m.id \in Nat
        OBVIOUS
      <4> QED
        BY <2>1, <3>2, <4>1
    <3> QED
      BY <1>1, <3>1, <3>2 DEF Preceding
  <2>3. Cardinality(H) >= HistoryLimit
    BY <1>0, <1>1, <1>2, <2>1, <2>2
  <2>4. CASE H = {}
    <3>1. Cardinality(H) = 0
      BY <2>4, FS_EmptySet
    <3> QED
      BY <1>0, <2>3, <3>1
  <2>5. CASE H # {}
    <3>1. PICK x \in H : \A o \in H : o.id <= x.id
      <4>1. \A o \in H : o.id \in 0..N
        BY <1>1
      <4> QED
        BY <2>5, <4>1, LastExists
    <3>2. x \in S /\ IsFiniteSet(Preceding(S, x)) /\ Cardinality(Preceding(S, x)) \in Nat
      BY <1>1, <1>2
    <3>3. x \notin Preceding(S, x)
      BY <3>2 DEF Preceding
    <3>4. H = Preceding(S, x) \cup {x}
      <4>1. ASSUME NEW o \in H PROVE o \in Preceding(S, x) \cup {x}
        <5>1. o \in S /\ o.id \in Nat /\ x.id \in Nat /\ o.id <= x.id
          BY <1>1, <3>1
        <5>2. CASE o.id = x.id
          BY <3>2, <5>1, <5>2 DEF UniqueIds
        <5>3. CASE o.id # x.id
          BY <5>1, <5>3 DEF Preceding
        <5> QED
          BY <5>2, <5>3
      <4>2. Preceding(S, x) \subseteq H
        BY <1>4 DEF Preceding
      <4> QED
        BY <4>1, <4>2
    <3>5. Cardinality(H) = Cardinality(Preceding(S, x)) + 1
      BY <3>2, <3>3, <3>4, FS_AddElement
    <3>6. Cardinality(Preceding(S, x)) < HistoryLimit
      BY <1>1, <3>2
    <3> QED
      BY <1>0, <2>3, <3>2, <3>5, <3>6
  <2> QED
    BY <2>4, <2>5
<1> QED
  BY <1>1, <1>4, <1>5 DEF H

-----------------------------------------------------------------------------
(* The mentor's conversation: the invariant *)

TalkRow == [op : {"none", "start", "send"} \cup Changes,
            at : {"idle", "read", "ask", "answer", "save", "write", "ok", "refused", "failed"},
            heard : SUBSET Message, before : SUBSET Message]

\* The messages of request r.
Mine(r) == {m \in messages : m.by = r}

\* Request r has stored a question and, later, its answer.
HasAnswer(r) == \E i, j \in Nat : i < j /\ Mine(r) = {Asked(r, i), Answered(r, j)}

\* What the position of a request says about its messages.
TalkOK(r) ==
  /\ talk[r].at \in {"idle", "read", "ask", "write", "refused", "failed"} => Mine(r) = {}
  /\ TalkAt(r, "answer") => \E i \in Nat : Mine(r) = {Asked(r, i)}
  /\ TalkAt(r, "save") => HasAnswer(r)
  /\ TalkAt(r, "ok") =>
       \/ HasAnswer(r)
       \/ Mine(r) = {} /\ (talk[r].op = "send" => conversation = "deleted")
  /\ talk[r].at \in {"read", "ask", "answer", "save"} => talk[r].op = "send"
  /\ TalkAt(r, "write") => talk[r].op \in Changes
  /\ ~TalkAt(r, "idle") => conversation # "none"

\* Request q, which began after the messages b, has heard a beginning h of what is said.
HeardRight(q, h, b) ==
  /\ h \subseteq Said
  /\ \A m \in h, o \in Said : o.id < m.id => o \in h
  /\ \A m \in h : m.by # q
  /\ b \subseteq h \/ Cardinality(h) = HistoryLimit

HeardOK(r) ==
  conversation # "deleted" /\ talk[r].op = "send" =>
    /\ TalkAt(r, "read") => talk[r].before \subseteq Said
    /\ talk[r].at \in {"ask", "answer", "save", "ok"} => HeardRight(r, talk[r].heard, talk[r].before)

Once(s) == \A n, k \in DOMAIN s : s[n] = s[k] => n = k

\* Whoever waits wants the lock, once.
QueueOK ==
  /\ \A n \in DOMAIN queue : Wants(queue[n])
  /\ Once(queue)

\* What is said comes before what is not yet said: nobody can commit while another
\* transaction has inserted a message.
SaidFirst == \A m \in Said, o \in messages \ Said : m.id < o.id

SaidInPairs == \A m \in Said : \E q, a \in Said : m \in {q, a} /\ Exchange(q, a, Said)

ConversationInv ==
  /\ ConversationTypeOK
  /\ IsFiniteSet(messages) /\ UniqueIds(messages)
  /\ SaidFirst /\ SaidInPairs
  /\ QueueOK
  /\ \A r \in Request : TalkOK(r) /\ HeardOK(r)
  /\ conversation = "none" => messages = {} /\ inserted = 0
  /\ conversation = "deleted" => messages = {}

-----------------------------------------------------------------------------
(* The mentor's conversation: what steps have in common *)

\* Types, when ids only grow.
LEMMA TalkTypes ==
  ASSUME ConversationInv, NEW r \in Request, NEW row,
         inserted' \in Nat, inserted <= inserted', row \in TalkRow',
         talk' = [talk EXCEPT ![r] = row],
         conversation' \in {"none", "open", "archived", "deleted"},
         messages' \subseteq Message', queue' \in Seq(Request)
  PROVE  ConversationTypeOK'
<1>1. Message \subseteq Message'
  <2>1. 1..inserted \subseteq 1..inserted'
    BY DEF ConversationInv, ConversationTypeOK
  <2> QED
    BY <2>1 DEF Message
<1>2. TalkRow \subseteq TalkRow'
  <2>1. SUBSET Message \subseteq SUBSET Message'
    BY <1>1
  <2> QED
    BY <2>1 DEF TalkRow
<1>3. talk \in [Request -> TalkRow]
  BY DEF ConversationInv, ConversationTypeOK, TalkRow
<1>4. talk' \in [Request -> TalkRow']
  BY <1>2, <1>3
<1> QED
  BY <1>4 DEF ConversationTypeOK, TalkRow

\* What was heard stays a beginning of what is said when later messages are added.
LEMMA HeardStays ==
  ASSUME ConversationInv, NEW q, NEW h, NEW b, HeardRight(q, h, b),
         Said \subseteq Said', \A m \in Said, o \in Said' \ Said : ~(o.id < m.id)
  PROVE  HeardRight(q, h, b)'
BY DEF HeardRight

\* A step of request r leaves the others what they know.
LEMMA OthersGoOn ==
  ASSUME ConversationInv, NEW r \in Request, NEW row,
         talk' = [talk EXCEPT ![r] = row],
         \A q \in Request \ {r} : Mine(q)' = Mine(q),
         Said \subseteq Said', \A m \in Said, o \in Said' \ Said : ~(o.id < m.id),
         conversation' = "deleted" <=> conversation = "deleted", conversation' # "none"
  PROVE  \A q \in Request \ {r} : TalkOK(q)' /\ HeardOK(q)'
<1> TAKE q \in Request \ {r}
<1>1. talk'[q] = talk[q] /\ TalkOK(q) /\ HeardOK(q) /\ Mine(q)' = Mine(q)
  BY DEF ConversationInv, ConversationTypeOK
<1>2. TalkOK(q)'
  BY <1>1 DEF TalkOK, HasAnswer, TalkAt, Asked, Answered
<1>3. HeardOK(q)'
  <2> SUFFICES ASSUME conversation' # "deleted", talk[q].op = "send" PROVE HeardOK(q)'
    BY <1>1 DEF HeardOK
  <2>1. TalkAt(q, "read") => talk[q].before \subseteq Said'
    BY <1>1 DEF HeardOK
  <2>2. talk[q].at \in {"ask", "answer", "save", "ok"}
          => HeardRight(q, talk[q].heard, talk[q].before)'
    <3> DEFINE h == talk[q].heard
               b == talk[q].before
    <3> SUFFICES ASSUME talk[q].at \in {"ask", "answer", "save", "ok"}
                 PROVE  HeardRight(q, talk[q].heard, talk[q].before)'
      OBVIOUS
    <3>1. PICK H, B : H = talk[q].heard /\ B = talk[q].before
      OBVIOUS
    <3>2. HeardRight(q, H, B)
      BY <1>1, <3>1 DEF HeardOK
    <3>3. HeardRight(q, H, B)'
      BY <3>2, HeardStays
    <3> QED
      BY <1>1, <3>1, <3>3 DEF HeardRight
  <2> QED
    BY <1>1, <2>1, <2>2 DEF HeardOK, TalkAt
<1> QED
  BY <1>2, <1>3

\* A step of r that touches no message and after which r has no transaction open.
LEMMA QuietTalk ==
  ASSUME ConversationInv, NEW r \in Request, NEW row, row \in TalkRow,
         talk' = [talk EXCEPT ![r] = row], UNCHANGED <<messages, inserted>>,
         talk[r].at \notin {"answer", "save"}, row.at \notin {"answer", "save"},
         Mine(r) = {}, row.at = "ok" => row.op # "send",
         row.at \in {"read", "ask"} => row.op = "send", row.at = "write" => row.op \in Changes,
         conversation' \in {"open", "archived", "deleted"},
         conversation' = "deleted" <=> conversation = "deleted",
         queue' \in Seq(Request), QueueOK', HeardOK(r)'
  PROVE  ConversationInv'
<1>1. Sharers' = Sharers /\ talk'[r] = row
  BY DEF ConversationInv, ConversationTypeOK, Sharers
<1>2. Said' = Said /\ \A q : Mine(q)' = Mine(q)
  BY <1>1 DEF Said, Mine
<1>3. \A q \in Request \ {r} : TalkOK(q)' /\ HeardOK(q)'
  BY <1>2, OthersGoOn
<1>4. TalkOK(r)'
  BY <1>1, <1>2 DEF TalkOK, TalkAt, TalkRow
<1>5. ConversationTypeOK'
  <2>1. Message' = Message /\ inserted \in Nat /\ messages' \subseteq Message'
    BY DEF Message, ConversationInv, ConversationTypeOK
  <2>2. row \in TalkRow'
    BY <2>1 DEF TalkRow
  <2>3. inserted' \in Nat /\ inserted <= inserted'
    BY <2>1
  <2>4. conversation' \in {"none", "open", "archived", "deleted"}
    OBVIOUS
  <2> QED
    BY <2>1, <2>2, <2>3, <2>4, TalkTypes
<1>6. SaidFirst' /\ SaidInPairs' /\ UniqueIds(messages)' /\ IsFiniteSet(messages)'
  BY <1>2 DEF ConversationInv, SaidFirst, SaidInPairs, UniqueIds, Exchange
<1> QED
  BY <1>3, <1>4, <1>5, <1>6 DEF ConversationInv

-----------------------------------------------------------------------------
(* The mentor's conversation: who waits for the lock *)
\* A request that leaves a queue, wherever it is, leaves the others in it.
LEMMA LeavesQueue ==
  ASSUME NEW S, NEW s \in Seq(S), NEW r, Once(s)
  PROVE  /\ RemoveFirst(s, r) \in Seq(S) /\ Once(RemoveFirst(s, r))
         /\ \A n \in DOMAIN RemoveFirst(s, r) :
              RemoveFirst(s, r)[n] # r /\ \E k \in DOMAIN s : RemoveFirst(s, r)[n] = s[k]
<1>1. CASE ~\E i \in 1..Len(s) : s[i] = r
  <2>1. RemoveFirst(s, r) = s
    BY <1>1 DEF RemoveFirst
  <2>2. DOMAIN s = 1..Len(s)
    OBVIOUS
  <2> QED
    BY <1>1, <2>1, <2>2
<1>2. CASE \E i \in 1..Len(s) : s[i] = r
  <2> DEFINE I == {i \in 1..Len(s) : s[i] = r}
             n == Min(I)
             left == SubSeq(s, 1, n - 1)
             right == SubSeq(s, n + 1, Len(s))
  <2>1. RemoveFirst(s, r) = left \o right
    BY <1>2 DEF RemoveFirst, RemoveAt, SelectInSeq
  <2>2. n \in 1..Len(s) /\ s[n] = r
    <3>1. PICK i \in 1..Len(s) : s[i] = r
      BY <1>2
    <3>2. I = {i}
      BY <3>1 DEF Once
    <3>3. \A y \in I : i <= y
      BY <3>2
    <3> QED
      BY <3>1, <3>2, <3>3 DEF Min
  <2> HIDE DEF n, I
  <2>3. /\ left \in Seq(S) /\ Len(left) = n - 1
        /\ \A i \in 1..n - 1 : left[i] = s[i]
    <3>1. 1 \in Int /\ n - 1 \in Int /\ \A i \in 1..n - 1 : s[i] \in S
      BY <2>2
    <3>2. /\ left \in Seq(S) /\ Len(left) = IF 1 <= n - 1 THEN n - 1 - 1 + 1 ELSE 0
          /\ \A i \in 1..n - 1 - 1 + 1 : left[i] = s[1 + i - 1]
      BY <3>1, SubSeqProperties
    <3> HIDE DEF left
    <3> QED
      BY <2>2, <3>2
  <2>4. /\ right \in Seq(S) /\ Len(right) = Len(s) - n
        /\ \A i \in 1..Len(s) - n : right[i] = s[n + i]
    <3>1. n + 1 \in Int /\ Len(s) \in Int /\ \A i \in n + 1..Len(s) : s[i] \in S
      BY <2>2
    <3>2. /\ right \in Seq(S) /\ Len(right) = IF n + 1 <= Len(s) THEN Len(s) - (n + 1) + 1 ELSE 0
          /\ \A i \in 1..Len(s) - (n + 1) + 1 : right[i] = s[n + 1 + i - 1]
      BY <3>1, SubSeqProperties
    <3> HIDE DEF right
    <3> QED
      BY <2>2, <3>2
  <2> HIDE DEF left, right
  <2>5. /\ left \o right \in Seq(S) /\ Len(left \o right) = Len(s) - 1
        /\ \A i \in 1..Len(s) - 1 :
             (left \o right)[i] = IF i <= n - 1 THEN s[i] ELSE s[i + 1]
    <3>1. /\ left \o right \in Seq(S)
          /\ Len(left \o right) = Len(left) + Len(right)
          /\ \A i \in 1..Len(left) + Len(right) :
               (left \o right)[i] = IF i <= Len(left) THEN left[i] ELSE right[i - Len(left)]
      BY <2>3, <2>4, ConcatProperties
    <3>2. Len(left) + Len(right) = Len(s) - 1
      BY <2>2, <2>3, <2>4
    <3>3. ASSUME NEW i \in 1..Len(s) - 1, i > n - 1 PROVE right[i - (n - 1)] = s[i + 1]
      <4>1. i - (n - 1) \in 1..Len(s) - n /\ n + (i - (n - 1)) = i + 1
        BY <2>2, <3>3
      <4> QED
        BY <2>4, <4>1
    <3> QED
      BY <2>2, <2>3, <3>1, <3>2, <3>3
  <2> DEFINE t == RemoveFirst(s, r)
  <2>6. t \in Seq(S) /\ DOMAIN t = 1..Len(s) - 1
    BY <2>1, <2>5
  <2>7. \A i \in 1..Len(s) - 1 : t[i] = IF i <= n - 1 THEN s[i] ELSE s[i + 1]
    BY <2>1, <2>5
  <2> HIDE DEF t
  <2>8. ASSUME NEW i \in DOMAIN t PROVE t[i] # r /\ \E k \in DOMAIN s : t[i] = s[k]
    <3>1. PICK k \in 1..Len(s) : t[i] = s[k] /\ k # n
      <4>1. CASE i <= n - 1
        BY <2>2, <2>6, <2>7, <4>1
      <4>2. CASE i > n - 1
        BY <2>2, <2>6, <2>7, <4>2
      <4> QED
        BY <2>2, <2>6, <4>1, <4>2
    <3> QED
      BY <2>2, <3>1 DEF Once
  <2>9. Once(t)
    <3> DEFINE place(i) == IF i <= n - 1 THEN i ELSE i + 1
    <3>1. \A i \in DOMAIN t : place(i) \in DOMAIN s /\ t[i] = s[place(i)]
      BY <2>2, <2>6, <2>7
    <3>2. \A i, k \in DOMAIN t : place(i) = place(k) => i = k
      BY <2>2, <2>6
    <3> HIDE DEF place
    <3> QED
      BY <3>1, <3>2, Zenon DEF Once
  <2> QED
    BY <2>6, <2>8, <2>9 DEF t
<1> QED
  BY <1>1, <1>2

\* Whoever has its place in the queue wants the lock, and leaves when it goes on.
LEMMA QueueShrinks ==
  ASSUME ConversationInv, NEW r \in Request, NEW row, talk' = [talk EXCEPT ![r] = row],
         queue' = RemoveFirst(queue, r)
  PROVE  queue' \in Seq(Request) /\ QueueOK'
<1>1. queue \in Seq(Request) /\ QueueOK /\ Once(queue)
  BY DEF ConversationInv, ConversationTypeOK, QueueOK
<1>2. /\ queue' \in Seq(Request) /\ Once(queue')
      /\ \A n \in DOMAIN queue' : queue'[n] # r /\ \E k \in DOMAIN queue : queue'[n] = queue[k]
  BY <1>1, LeavesQueue
<1>3. ASSUME NEW n \in DOMAIN queue' PROVE Wants(queue[n])'
  <2>1. PICK k \in DOMAIN queue : queue'[n] = queue[k] /\ queue[k] # r
    BY <1>2
  <2>2. queue[k] \in Request /\ Wants(queue[k])
    BY <1>1 DEF QueueOK
  <2>3. talk'[queue[k]] = talk[queue[k]]
    BY <2>1, <2>2 DEF ConversationInv, ConversationTypeOK
  <2> QED
    BY <2>1, <2>2, <2>3 DEF Wants
<1> QED
  BY <1>2, <1>3 DEF QueueOK, Once

\* Others and requests that do not wait leave the queue as it is.
LEMMA QueueStays ==
  ASSUME ConversationInv, NEW r \in Request, NEW row, talk' = [talk EXCEPT ![r] = row],
         ~Wants(r), UNCHANGED queue
  PROVE  queue' \in Seq(Request) /\ QueueOK'
<1>1. queue \in Seq(Request) /\ QueueOK
  BY DEF ConversationInv, ConversationTypeOK
<1>2. ASSUME NEW n \in DOMAIN queue PROVE Wants(queue[n])'
  <2>1. queue[n] \in Request /\ Wants(queue[n]) /\ queue[n] # r
    BY <1>1 DEF QueueOK
  <2>2. talk'[queue[n]] = talk[queue[n]]
    BY <2>1 DEF ConversationInv, ConversationTypeOK
  <2> QED
    BY <2>1, <2>2 DEF Wants
<1> QED
  BY <1>1, <1>2 DEF QueueOK, Once

\* A request that only moves on keeps the rest of its row.
LEMMA TalkMoves ==
  ASSUME ConversationInv, NEW r \in Request, NEW at, TalkTo(r, at),
         at \in {"idle", "read", "ask", "answer", "save", "write", "ok", "refused", "failed"}
  PROVE  \E row \in TalkRow : /\ talk' = [talk EXCEPT ![r] = row] /\ row.at = at
                              /\ row.op = talk[r].op /\ row.heard = talk[r].heard
                              /\ row.before = talk[r].before
<1> DEFINE row == [talk[r] EXCEPT !.at = at]
<1>1. talk[r] \in TalkRow
  BY DEF ConversationInv, ConversationTypeOK, TalkRow
<1>2. row \in TalkRow /\ row.at = at /\ row.op = talk[r].op /\ row.heard = talk[r].heard
      /\ row.before = talk[r].before
  BY <1>1 DEF TalkRow
<1>3. talk' = [talk EXCEPT ![r] = row]
  BY DEF TalkTo
<1> QED
  BY <1>2, <1>3

-----------------------------------------------------------------------------
(* The mentor's conversation: requests without a transaction *)

LEMMA LoadForSendKeeps ==
  ASSUME ConversationInv, NEW r \in Request, LoadForSend(r)
  PROVE  ConversationInv'
<1> DEFINE row == [talk[r] EXCEPT !.op = "send", !.before = Said,
                                  !.at = IF conversation = "open" THEN "read" ELSE "refused"]
<1>1. TalkOK(r) /\ TalkAt(r, "idle") /\ talk[r] \in TalkRow /\ conversation # "none"
  BY DEF ConversationInv, ConversationTypeOK, TalkRow, LoadForSend
<1>2. Said \subseteq Message
  BY DEF Said, ConversationInv, ConversationTypeOK
<1>3. /\ row \in TalkRow /\ row.op = "send" /\ row.before = Said
      /\ row.at \in {"read", "refused"}
  BY <1>1, <1>2 DEF TalkRow
<1>4. talk' = [talk EXCEPT ![r] = row] /\ UNCHANGED <<conversation, messages, inserted, queue>>
  BY DEF LoadForSend
<1> HIDE DEF row
<1>5. talk'[r] = row
  BY <1>4 DEF ConversationInv, ConversationTypeOK
<1>6. queue' \in Seq(Request) /\ QueueOK'
  BY <1>1, <1>4, QueueStays DEF Wants, TalkAt
<1>7. Said' = Said
  BY <1>1, <1>3, <1>4 DEF Said, Sharers, TalkAt, ConversationInv, ConversationTypeOK
<1>8. HeardOK(r)'
  BY <1>3, <1>5, <1>7 DEF HeardOK, TalkAt
<1>9. Mine(r) = {} /\ talk[r].at \notin {"answer", "save"}
  BY <1>1 DEF TalkOK, TalkAt
<1>10. conversation' \in {"open", "archived", "deleted"}
  BY <1>1, <1>4 DEF ConversationInv, ConversationTypeOK
<1> QED
  BY <1>3, <1>4, <1>6, <1>8, <1>9, <1>10, QuietTalk

LEMMA ReadHistoryKeeps ==
  ASSUME ConversationInv, NEW r \in Request, ReadHistory(r)
  PROVE  ConversationInv'
<1> DEFINE row == [talk[r] EXCEPT !.at = "ask", !.heard = FirstOf(Said)]
<1>1. /\ TalkOK(r) /\ HeardOK(r) /\ TalkAt(r, "read") /\ talk[r] \in TalkRow
      /\ conversation # "none" /\ talk[r].op = "send" /\ Mine(r) = {}
  BY DEF ConversationInv, ConversationTypeOK, TalkRow, ReadHistory, TalkOK, TalkAt
<1>2. Said \subseteq messages /\ Said \subseteq Message /\ inserted \in Nat
  BY DEF Said, ConversationInv, ConversationTypeOK
<1>3. /\ FirstOf(Said) \subseteq Said
      /\ \A m \in FirstOf(Said), o \in Said : o.id < m.id => o \in FirstOf(Said)
      /\ FirstOf(Said) = Said \/ Cardinality(FirstOf(Said)) = HistoryLimit
  <2>1. IsFiniteSet(Said)
    BY <1>2, FS_Subset DEF ConversationInv
  <2>2. \A m \in Said : m.id \in 0..inserted
    BY <1>2 DEF Message
  <2>3. UniqueIds(Said)
    BY <1>2 DEF UniqueIds, ConversationInv
  <2> QED
    BY <1>2, <2>1, <2>2, <2>3, FirstFills
<1>4. PICK h : h = FirstOf(Said)
  OBVIOUS
<1>5. /\ row \in TalkRow /\ row.op = "send" /\ row.at = "ask" /\ row.heard = h
      /\ row.before = talk[r].before
  BY <1>1, <1>2, <1>3, <1>4 DEF TalkRow
<1>6. talk' = [talk EXCEPT ![r] = row] /\ UNCHANGED <<conversation, messages, inserted, queue>>
  BY DEF ReadHistory
<1> HIDE DEF row
<1>7. talk'[r] = row
  BY <1>6 DEF ConversationInv, ConversationTypeOK
<1>8. queue' \in Seq(Request) /\ QueueOK'
  BY <1>1, <1>6, QueueStays DEF Wants, TalkAt
<1>9. Said' = Said
  BY <1>1, <1>5, <1>6 DEF Said, Sharers, TalkAt, ConversationInv, ConversationTypeOK
<1>10. HeardOK(r)'
  <2>1. \A m \in Said : m.by # r
    BY <1>1, <1>2 DEF Mine
  <2>2. CASE conversation = "deleted"
    BY <1>6, <2>2 DEF HeardOK
  <2>3. CASE conversation # "deleted"
    <3>1. talk[r].before \subseteq Said
      BY <1>1, <2>3 DEF HeardOK
    <3>2. PICK b : b = talk[r].before
      OBVIOUS
    <3>3. HeardRight(r, h, b)
      BY <1>3, <1>4, <2>1, <3>1, <3>2 DEF HeardRight
    <3>4. HeardRight(r, h, b)'
      BY <1>9, <3>3 DEF HeardRight
    <3> QED
      BY <1>5, <1>7, <3>2, <3>4 DEF HeardOK, HeardRight, TalkAt
  <2> QED
    BY <2>2, <2>3
<1>11. conversation' \in {"open", "archived", "deleted"} /\ talk[r].at \notin {"answer", "save"}
  BY <1>1, <1>6 DEF ConversationInv, ConversationTypeOK, TalkAt
<1> QED
  BY <1>1, <1>5, <1>6, <1>8, <1>10, <1>11, QuietTalk

LEMMA LoadForChangeKeeps ==
  ASSUME ConversationInv, NEW r \in Request, NEW change \in Changes, LoadForChange(r, change)
  PROVE  ConversationInv'
<1> DEFINE row == [talk[r] EXCEPT !.op = change,
                                  !.at = CASE conversation = "deleted" -> "refused"
                                           [] Idempotent(change) -> "ok"
                                           [] OTHER -> "write"]
<1>1. TalkOK(r) /\ TalkAt(r, "idle") /\ talk[r] \in TalkRow /\ conversation # "none"
  BY DEF ConversationInv, ConversationTypeOK, TalkRow, LoadForChange
<1>2. row.at \in {"refused", "ok", "write"} /\ row.op = change
  BY <1>1 DEF TalkRow
<1>3. row \in TalkRow
  BY <1>1, <1>2 DEF TalkRow
<1>4. talk' = [talk EXCEPT ![r] = row] /\ UNCHANGED <<conversation, messages, inserted, queue>>
  <2>1. talk' = [talk EXCEPT ![r].op = change,
                             ![r].at = CASE conversation = "deleted" -> "refused"
                                         [] Idempotent(change) -> "ok"
                                         [] OTHER -> "write"]
    BY DEF LoadForChange
  <2>2. PICK at : at = CASE conversation = "deleted" -> "refused"
                         [] Idempotent(change) -> "ok"
                         [] OTHER -> "write"
    OBVIOUS
  <2>3. talk' = [talk EXCEPT ![r].op = change, ![r].at = at]
    BY <2>1, <2>2
  <2>4. row = [talk[r] EXCEPT !.op = change, !.at = at]
    BY <2>2
  <2> HIDE DEF row
  <2> QED
    BY <2>3, <2>4 DEF LoadForChange, ConversationInv, ConversationTypeOK
<1> HIDE DEF row
<1>5. talk'[r] = row
  BY <1>4 DEF ConversationInv, ConversationTypeOK
<1>6. queue' \in Seq(Request) /\ QueueOK'
  BY <1>1, <1>4, QueueStays DEF Wants, TalkAt
<1>7. HeardOK(r)' /\ row.op # "send"
  BY <1>2, <1>5 DEF HeardOK, Changes
<1>8. Mine(r) = {} /\ talk[r].at \notin {"answer", "save"}
  BY <1>1 DEF TalkOK, TalkAt
<1>9. conversation' \in {"open", "archived", "deleted"}
  BY <1>1, <1>4 DEF ConversationInv, ConversationTypeOK
<1> QED
  BY <1>2, <1>3, <1>4, <1>6, <1>7, <1>8, <1>9, QuietTalk

\* A step of r that changes nothing but its position, outside a transaction.
LEMMA MoveKeeps ==
  ASSUME ConversationInv, NEW r \in Request, NEW at, TalkTo(r, at),
         at \in {"ok", "failed"}, at = "ok" => talk[r].op # "send",
         UNCHANGED <<messages, inserted>>, Mine(r) = {}, talk[r].at \notin {"answer", "save"},
         conversation' \in {"open", "archived", "deleted"},
         conversation' = "deleted" => conversation = "deleted",
         conversation = "deleted" => conversation' = "deleted",
         queue' \in Seq(Request), QueueOK'
  PROVE  ConversationInv'
<1>1. PICK row \in TalkRow : /\ talk' = [talk EXCEPT ![r] = row] /\ row.at = at
                             /\ row.op = talk[r].op
  BY TalkMoves
<1>2. talk'[r] = row
  BY <1>1 DEF ConversationInv, ConversationTypeOK
<1>3. HeardOK(r)'
  BY <1>1, <1>2 DEF HeardOK, TalkAt
<1> QED
  BY <1>1, <1>3, QuietTalk

-----------------------------------------------------------------------------
(* The mentor's conversation: transactions *)

\* A step of r stores its next message, the last one there is.
LEMMA InsertKeeps ==
  ASSUME ConversationInv, NEW r \in Request, NEW row, row \in TalkRow, row.op = "send",
         row.at \in {"answer", "save"}, row.heard = talk[r].heard, row.before = talk[r].before,
         talk' = [talk EXCEPT ![r] = row], talk[r].at \in {"ask", "answer"},
         NEW m, m \in [id : {inserted + 1}, by : {r}, sender : {"user", "mentor"}],
         Insert(m), UNCHANGED <<conversation, queue>>,
         conversation \in {"open", "archived"}, TalkOK(r)'
  PROVE  ConversationInv'
<1>1. /\ inserted \in Nat /\ inserted' = inserted + 1 /\ m.id = inserted' /\ m.by = r
      /\ messages' = messages \cup {m} /\ m.sender \in {"user", "mentor"}
  BY DEF Insert, ConversationInv, ConversationTypeOK
<1>2. talk'[r] = row /\ TalkOK(r) /\ HeardOK(r) /\ talk[r].op = "send"
  BY DEF ConversationInv, ConversationTypeOK, TalkOK
<1>3. \A o \in messages : o.id \in Nat /\ o.id < m.id
  BY <1>1 DEF ConversationInv, ConversationTypeOK, Message
<1>4. Sharers' = Sharers \cup {r}
  BY <1>2 DEF Sharers, ConversationInv, ConversationTypeOK
<1>5. Said' = Said
  <2>1. ASSUME NEW o \in messages, o.by = r PROVE r \in Sharers
    BY <1>2, <2>1 DEF TalkOK, Mine, Sharers
  <2> QED
    BY <1>1, <1>4, <2>1 DEF Said
<1>6. \A q \in Request \ {r} : Mine(q)' = Mine(q)
  BY <1>1 DEF Mine
<1>7. \A q \in Request \ {r} : TalkOK(q)' /\ HeardOK(q)'
  BY <1>5, <1>6, OthersGoOn
<1>8. HeardOK(r)'
  <2>1. PICK h, b : h = talk[r].heard /\ b = talk[r].before
    OBVIOUS
  <2>2. HeardRight(r, h, b)
    BY <1>2, <2>1 DEF HeardOK
  <2>3. HeardRight(r, h, b)'
    BY <1>5, <2>2 DEF HeardRight
  <2> QED
    BY <1>2, <2>1, <2>3 DEF HeardOK, HeardRight, TalkAt
<1>9. queue' \in Seq(Request) /\ QueueOK'
  BY <1>2, QueueStays DEF Wants
<1>10. ConversationTypeOK'
  <2>1. 1..inserted \subseteq 1..inserted' /\ m.id \in 1..inserted' /\ inserted <= inserted'
    BY <1>1
  <2>2. Message \subseteq Message'
    BY <2>1 DEF Message
  <2>3. SUBSET Message \subseteq SUBSET Message'
    BY <2>2
  <2>4. row \in TalkRow'
    BY <2>3 DEF TalkRow
  <2>5. m \in Message' /\ messages \subseteq Message'
    BY <1>1, <2>1, <2>2 DEF Message, ConversationInv, ConversationTypeOK
  <2>6. inserted' \in Nat /\ messages' \subseteq Message'
    BY <1>1, <2>5
  <2>7. conversation' \in {"none", "open", "archived", "deleted"}
    OBVIOUS
  <2> QED
    BY <1>9, <2>1, <2>4, <2>6, <2>7, TalkTypes
<1>11. IsFiniteSet(messages)' /\ UniqueIds(messages)'
  <2>1. IsFiniteSet(messages')
    BY <1>1, FS_AddElement DEF ConversationInv
  <2>2. m.id \in Nat
    BY <1>1
  <2> QED
    BY <1>1, <1>3, <2>1, <2>2 DEF UniqueIds, ConversationInv
<1>12. SaidFirst' /\ SaidInPairs'
  <2>1. Said \subseteq messages
    BY DEF Said
  <2> QED
    BY <1>1, <1>3, <1>5, <2>1 DEF SaidFirst, SaidInPairs, Exchange, ConversationInv
<1> QED
  BY <1>7, <1>8, <1>9, <1>10, <1>11, <1>12, <1>2 DEF ConversationInv

LEMMA AskKeeps ==
  ASSUME ConversationInv, NEW r \in Request, Ask(r)
  PROVE  ConversationInv'
<1>1. /\ TalkOK(r) /\ TalkAt(r, "ask") /\ Mine(r) = {} /\ talk[r].op = "send"
      /\ conversation \in {"open", "archived", "deleted"} /\ inserted \in Nat
  BY DEF ConversationInv, ConversationTypeOK, Ask, TalkOK, TalkAt
<1>2. CASE conversation = "deleted"
  <2>1. TalkTo(r, "failed") /\ UNCHANGED <<conversation, messages, inserted, queue>>
    BY <1>2 DEF Ask
  <2>2. ~Wants(r) /\ talk[r].at \notin {"answer", "save"}
    BY <1>1 DEF Wants, TalkAt
  <2>3. queue' \in Seq(Request) /\ QueueOK'
    BY <2>1, <2>2, TalkMoves, QueueStays
  <2> QED
    BY <1>1, <2>1, <2>2, <2>3, MoveKeeps
<1>3. CASE conversation # "deleted"
  <2> DEFINE m == Asked(r, inserted + 1)
  <2>1. TalkTo(r, "answer") /\ Insert(m) /\ UNCHANGED <<conversation, queue>>
    BY <1>3 DEF Ask
  <2>2. PICK row \in TalkRow : /\ talk' = [talk EXCEPT ![r] = row] /\ row.at = "answer"
                               /\ row.op = talk[r].op /\ row.heard = talk[r].heard
                               /\ row.before = talk[r].before
    BY <2>1, TalkMoves
  <2>3. m \in [id : {inserted + 1}, by : {r}, sender : {"user", "mentor"}]
    BY DEF Asked
  <2>4. PICK i : i = inserted + 1
    OBVIOUS
  <2>5. Mine(r)' = {Asked(r, i)} /\ i \in Nat
    BY <1>1, <2>1, <2>4 DEF Mine, Insert, Asked
  <2>6. talk'[r] = row
    BY <2>2 DEF ConversationInv, ConversationTypeOK
  <2>7. TalkOK(r)'
    BY <1>1, <2>1, <2>2, <2>5, <2>6 DEF TalkOK, TalkAt, Asked
  <2>8. PICK x : x = m
    OBVIOUS
  <2>9. conversation \in {"open", "archived"} /\ talk[r].at \in {"ask", "answer"}
    BY <1>1, <1>3 DEF TalkAt
  <2> HIDE DEF m
  <2> QED
    BY <1>1, <2>1, <2>2, <2>3, <2>7, <2>8, <2>9, InsertKeeps
<1> QED
  BY <1>2, <1>3

LEMMA AnswerKeeps ==
  ASSUME ConversationInv, NEW r \in Request, Answer(r)
  PROVE  ConversationInv'
<1>1. /\ TalkOK(r) /\ TalkAt(r, "answer") /\ talk[r].op = "send"
      /\ conversation \in {"open", "archived", "deleted"} /\ inserted \in Nat
  BY DEF ConversationInv, ConversationTypeOK, Answer, TalkOK, TalkAt
<1>2. PICK i \in Nat : Mine(r) = {Asked(r, i)}
  BY <1>1 DEF TalkOK
<1>3. Asked(r, i) \in messages /\ Asked(r, i).id = i
  BY <1>2 DEF Mine, Asked
<1>4. i <= inserted /\ conversation # "deleted"
  BY <1>1, <1>3 DEF ConversationInv, ConversationTypeOK, Message
<1> DEFINE m == Answered(r, inserted + 1)
<1>5. TalkTo(r, "save") /\ Insert(m) /\ UNCHANGED <<conversation, queue>>
  BY DEF Answer
<1>6. PICK row \in TalkRow : /\ talk' = [talk EXCEPT ![r] = row] /\ row.at = "save"
                             /\ row.op = talk[r].op /\ row.heard = talk[r].heard
                             /\ row.before = talk[r].before
  BY <1>5, TalkMoves
<1>7. m \in [id : {inserted + 1}, by : {r}, sender : {"user", "mentor"}]
  BY DEF Answered
<1>8. PICK j : j = inserted + 1
  OBVIOUS
<1>9. Mine(r)' = {Asked(r, i), Answered(r, j)} /\ j \in Nat /\ i < j
  BY <1>1, <1>2, <1>4, <1>5, <1>8 DEF Mine, Insert, Answered
<1>10. talk'[r] = row
  BY <1>6 DEF ConversationInv, ConversationTypeOK
<1>11. TalkOK(r)'
  <2>1. HasAnswer(r)'
    BY <1>9 DEF HasAnswer, Asked, Answered
  <2> QED
    BY <1>1, <1>5, <1>6, <1>10, <2>1 DEF TalkOK, TalkAt
<1>12. PICK x : x = m
  OBVIOUS
<1>13. conversation \in {"open", "archived"} /\ talk[r].at \in {"ask", "answer"}
  BY <1>1, <1>4 DEF TalkAt
<1> HIDE DEF m
<1> QED
  BY <1>1, <1>5, <1>6, <1>7, <1>11, <1>12, <1>13, InsertKeeps

\* A rollback takes the messages of its request away, which nobody had read.
LEMMA RollBackKeeps ==
  ASSUME ConversationInv, NEW r \in Request, RollBack(r),
         talk[r].at \in {"read", "ask", "answer", "save", "write"}
  PROVE  ConversationInv'
<1>1. PICK row \in TalkRow : talk' = [talk EXCEPT ![r] = row] /\ row.at = "failed"
  BY TalkMoves DEF RollBack
<1>2. /\ talk'[r] = row /\ TalkOK(r) /\ inserted \in Nat /\ UNCHANGED <<conversation, inserted>>
      /\ conversation \in {"open", "archived", "deleted"}
  BY <1>1 DEF RollBack, ConversationInv, ConversationTypeOK, TalkOK, TalkAt
<1>3. messages' = messages \ Mine(r)
  BY DEF RollBack, Mine
<1>4. Sharers' = Sharers \ {r}
  BY <1>1, <1>2 DEF Sharers, ConversationInv, ConversationTypeOK
<1>5. Said' = Said
  <2>1. ASSUME NEW o \in messages, o.by = r PROVE r \in Sharers
    BY <1>2, <2>1 DEF TalkOK, Mine, Sharers
  <2> QED
    BY <1>3, <1>4, <2>1 DEF Said, Mine
<1>6. Mine(r)' = {} /\ \A q \in Request \ {r} : Mine(q)' = Mine(q)
  BY <1>3 DEF Mine
<1>7. \A q \in Request \ {r} : TalkOK(q)' /\ HeardOK(q)'
  BY <1>1, <1>2, <1>5, <1>6, OthersGoOn
<1>8. TalkOK(r)' /\ HeardOK(r)'
  BY <1>1, <1>2, <1>6 DEF TalkOK, HeardOK, TalkAt
<1>9. queue' \in Seq(Request) /\ QueueOK'
  BY <1>1, QueueShrinks DEF RollBack
<1>10. ConversationTypeOK'
  <2>1. Message' = Message /\ inserted' \in Nat /\ inserted <= inserted' /\ messages' \subseteq Message'
    BY <1>2, <1>3 DEF Message, ConversationInv, ConversationTypeOK
  <2>2. row \in TalkRow'
    BY <2>1 DEF TalkRow
  <2>3. conversation' \in {"none", "open", "archived", "deleted"}
    BY <1>2
  <2> QED
    BY <1>1, <1>9, <2>1, <2>2, <2>3, TalkTypes
<1>11. IsFiniteSet(messages)' /\ UniqueIds(messages)'
  <2>1. IsFiniteSet(messages')
    BY <1>3, FS_Subset DEF ConversationInv
  <2> QED
    BY <1>3, <2>1 DEF UniqueIds, ConversationInv
<1>12. SaidFirst' /\ SaidInPairs'
  BY <1>3, <1>5 DEF SaidFirst, SaidInPairs, Exchange, ConversationInv
<1>13. conversation' = "deleted" => messages' = {}
  BY <1>2, <1>3 DEF ConversationInv
<1> QED
  BY <1>2, <1>7, <1>8, <1>9, <1>10, <1>11, <1>12, <1>13 DEF ConversationInv

LEMMA BreakDeadlockKeeps ==
  ASSUME ConversationInv, NEW r \in Request, BreakDeadlock(r)
  PROVE  ConversationInv'
<1>1. PICK n \in 1..Len(queue) : queue[n] = r
  BY DEF BreakDeadlock, Contains
<1>2. Wants(r)
  BY <1>1 DEF ConversationInv, ConversationTypeOK, QueueOK
<1> QED
  BY <1>2, RollBackKeeps DEF BreakDeadlock, Wants

\* The lock is granted when no other transaction has inserted a message, so that
\* what is committed comes after all that was said.
LEMMA SaveKeeps ==
  ASSUME ConversationInv, NEW r \in Request, Save(r)
  PROVE  ConversationInv'
<1>1. PICK row \in TalkRow : /\ talk' = [talk EXCEPT ![r] = row] /\ row.at = "ok"
                             /\ row.op = talk[r].op /\ row.heard = talk[r].heard
                             /\ row.before = talk[r].before
  BY TalkMoves DEF Save
<1>2. /\ talk'[r] = row /\ TalkOK(r) /\ HeardOK(r) /\ TalkAt(r, "save") /\ talk[r].op = "send"
      /\ UNCHANGED <<conversation, messages, inserted>>
      /\ conversation \in {"open", "archived", "deleted"} /\ inserted \in Nat
  BY <1>1 DEF Save, ConversationInv, ConversationTypeOK, TalkOK, TalkAt
<1>3. Sharers = {r} /\ Sharers' = {}
  BY <1>1, <1>2 DEF Save, Blockers, Sharers, ConversationInv, ConversationTypeOK, TalkAt
<1>4. Said = messages \ Mine(r) /\ Said' = messages
  BY <1>2, <1>3 DEF Said, Mine
<1>5. \A q \in Request : Mine(q)' = Mine(q)
  BY <1>2 DEF Mine
<1>6. PICK i, j \in Nat : i < j /\ Mine(r) = {Asked(r, i), Answered(r, j)}
  BY <1>2 DEF TalkOK, HasAnswer
<1>7. \A m \in messages : m.id \in Nat
  BY DEF ConversationInv, ConversationTypeOK, Message
<1>8. \A m \in Said, o \in Said' \ Said : m.id < o.id
  BY <1>4 DEF SaidFirst, ConversationInv
<1>9. Said \subseteq Said' /\ \A m \in Said, o \in Said' \ Said : ~(o.id < m.id)
  BY <1>4, <1>7, <1>8
<1>10. \A q \in Request \ {r} : TalkOK(q)' /\ HeardOK(q)'
  BY <1>1, <1>2, <1>5, <1>9, OthersGoOn
<1>11. TalkOK(r)'
  <2>1. HasAnswer(r)'
    BY <1>5, <1>6 DEF HasAnswer, Asked, Answered
  <2> QED
    BY <1>1, <1>2, <2>1 DEF TalkOK, TalkAt
<1>12. HeardOK(r)'
  <2>1. PICK h, b : h = talk[r].heard /\ b = talk[r].before
    OBVIOUS
  <2>2. CASE conversation = "deleted"
    BY <1>2, <2>2 DEF HeardOK
  <2>3. CASE conversation # "deleted"
    <3>1. HeardRight(r, h, b)
      BY <1>2, <2>1, <2>3 DEF HeardOK, TalkAt
    <3>2. HeardRight(r, h, b)'
      BY <1>9, <3>1, HeardStays
    <3> QED
      BY <1>1, <1>2, <2>1, <3>2 DEF HeardOK, HeardRight, TalkAt
  <2> QED
    BY <2>2, <2>3
<1>13. queue' \in Seq(Request) /\ QueueOK'
  BY <1>1, QueueShrinks DEF Save
<1>14. ConversationTypeOK'
  <2>1. Message' = Message /\ inserted' \in Nat /\ inserted <= inserted' /\ messages' \subseteq Message'
    BY <1>2 DEF Message, ConversationInv, ConversationTypeOK
  <2>2. row \in TalkRow'
    BY <2>1 DEF TalkRow
  <2>3. conversation' \in {"none", "open", "archived", "deleted"}
    BY <1>2
  <2> QED
    BY <1>1, <1>13, <2>1, <2>2, <2>3, TalkTypes
<1>15. SaidFirst'
  BY <1>2, <1>4 DEF SaidFirst
<1>16. SaidInPairs'
  <2>1. ASSUME NEW m \in Said
        PROVE  \E q, a \in messages : m \in {q, a} /\ Exchange(q, a, messages)
    <3>1. PICK q \in Said, a \in Said : m \in {q, a} /\ Exchange(q, a, Said)
      BY <2>1 DEF SaidInPairs, ConversationInv
    <3>2. ASSUME NEW o \in messages PROVE ~(q.id < o.id /\ o.id < a.id)
      <4>1. CASE o \in Said
        BY <3>1, <4>1 DEF Exchange
      <4>2. CASE o \notin Said
        BY <1>4, <1>7, <1>8, <3>1, <4>2
      <4> QED
        BY <4>1, <4>2
    <3> QED
      BY <1>4, <3>1, <3>2 DEF Exchange
  <2>2. ASSUME NEW m \in Mine(r)
        PROVE  \E q, a \in messages : m \in {q, a} /\ Exchange(q, a, messages)
    <3> DEFINE q == Asked(r, i)
               a == Answered(r, j)
    <3>1. q \in Mine(r) /\ a \in Mine(r) /\ m \in {q, a} /\ q \in messages /\ a \in messages
      BY <1>6 DEF Mine
    <3>2. /\ q.sender = "user" /\ a.sender = "mentor" /\ q.by = a.by /\ q.id < a.id
          /\ q.id = i /\ a.id = j
      BY <1>6 DEF Asked, Answered
    <3>3. ASSUME NEW o \in messages PROVE ~(q.id < o.id /\ o.id < a.id)
      <4>1. CASE o \in Said
        <5>1. q \in Said' \ Said
          BY <1>4, <3>1
        <5> QED
          BY <1>7, <1>8, <3>1, <4>1, <5>1
      <4>2. CASE o \notin Said
        BY <1>4, <1>6, <1>7, <3>1, <3>2, <4>2
      <4> QED
        BY <4>1, <4>2
    <3> QED
      BY <3>1, <3>2, <3>3 DEF Exchange
  <2>3. \A m \in messages : \E q, a \in messages : m \in {q, a} /\ Exchange(q, a, messages)
    BY <1>4, <2>1, <2>2
  <2> QED
    BY <1>4, <2>3 DEF SaidInPairs, Exchange
<1>17. IsFiniteSet(messages)' /\ UniqueIds(messages)' /\ (conversation' = "deleted" => messages' = {})
  BY <1>2 DEF ConversationInv, UniqueIds
<1> QED
  BY <1>2, <1>10, <1>11, <1>12, <1>13, <1>14, <1>15, <1>16, <1>17 DEF ConversationInv

LEMMA WaitForLockKeeps ==
  ASSUME ConversationInv, NEW r \in Request, WaitForLock(r)
  PROVE  ConversationInv'
<1>1. /\ UNCHANGED <<conversation, messages, inserted, talk>> /\ queue' = Append(queue, r)
      /\ Wants(r) /\ \A n \in 1..Len(queue) : queue[n] # r
  BY DEF WaitForLock, Contains
<1>2. queue \in Seq(Request) /\ QueueOK
  BY DEF ConversationInv, ConversationTypeOK
<1>3. /\ queue' \in Seq(Request) /\ Len(queue') = Len(queue) + 1
      /\ \A n \in 1..Len(queue) : queue'[n] = queue[n]
      /\ queue'[Len(queue) + 1] = r
  BY <1>1, <1>2, AppendProperties
<1>4. \A n \in DOMAIN queue' : n \in DOMAIN queue \/ n = Len(queue) + 1
  BY <1>2, <1>3
<1>5. \A n \in DOMAIN queue' : Wants(queue'[n])
  BY <1>1, <1>2, <1>3, <1>4 DEF QueueOK
<1>6. Once(queue')
  BY <1>1, <1>2, <1>3, <1>4 DEF QueueOK, Once
<1>7. QueueOK'
  BY <1>1, <1>5, <1>6 DEF QueueOK, Once, Wants
<1>8. Said' = Said /\ \A q : Mine(q)' = Mine(q)
  BY <1>1 DEF Said, Sharers, Mine
<1>9. ConversationTypeOK'
  BY <1>1, <1>3 DEF ConversationTypeOK, Message, ConversationInv
<1>10. ASSUME NEW q \in Request PROVE TalkOK(q)' /\ HeardOK(q)'
  <2>1. TalkOK(q) /\ HeardOK(q)
    BY DEF ConversationInv
  <2> QED
    BY <1>1, <1>8, <2>1 DEF TalkOK, HeardOK, HeardRight, HasAnswer, TalkAt, Asked, Answered
<1> QED
  BY <1>1, <1>7, <1>8, <1>9, <1>10
  DEF ConversationInv, SaidFirst, SaidInPairs, UniqueIds, Exchange

-----------------------------------------------------------------------------
(* The mentor's conversation: changes, the beginning and all steps *)

\* A question and its answer are two messages.
LEMMA TwoMessages ==
  ASSUME NEW r, NEW i, NEW j
  PROVE  /\ IsFiniteSet({Asked(r, i), Answered(r, j)})
         /\ Cardinality({Asked(r, i), Answered(r, j)}) = 2
<1> DEFINE q == Asked(r, i)
           a == Answered(r, j)
<1>1. a \notin {q}
  BY DEF Asked, Answered
<1>2. IsFiniteSet({q}) /\ Cardinality({q}) = 1
  BY FS_Singleton
<1>3. {q, a} = {q} \cup {a}
  OBVIOUS
<1> HIDE DEF q, a
<1>4. IsFiniteSet({q} \cup {a}) /\ Cardinality({q} \cup {a}) = 1 + 1
  BY <1>1, <1>2, FS_AddElement
<1>5. IsFiniteSet({q, a}) /\ Cardinality({q, a}) = 2
  BY <1>3, <1>4
<1> QED
  BY <1>5 DEF q, a

\* A deletion waits until nobody has a message in an open transaction.
LEMMA WriteKeeps ==
  ASSUME ConversationInv, NEW r \in Request, Write(r)
  PROVE  ConversationInv'
<1>1. /\ TalkOK(r) /\ TalkAt(r, "write") /\ Mine(r) = {} /\ talk[r].op \in Changes
      /\ conversation \in {"open", "archived", "deleted"} /\ inserted \in Nat
      /\ TalkTo(r, "ok") /\ inserted' = inserted /\ queue' = RemoveFirst(queue, r)
  BY DEF ConversationInv, ConversationTypeOK, Write, TalkOK, TalkAt
<1>2. CASE talk[r].op # "delete"
  <2>1. UNCHANGED <<messages, inserted>>
    BY <1>1, <1>2 DEF Write
  <2>2. /\ conversation' \in {"open", "archived", "deleted"}
        /\ conversation' = "deleted" => conversation = "deleted"
        /\ conversation = "deleted" => conversation' = "deleted"
    <3>1. CASE conversation = "deleted"
      BY <3>1 DEF Write
    <3>2. CASE conversation # "deleted"
      BY <1>1, <1>2, <3>2 DEF Write, Changes
    <3> QED
      BY <3>1, <3>2
  <2>3. talk[r].op # "send" /\ talk[r].at \notin {"answer", "save"}
    BY <1>1 DEF Changes, TalkAt
  <2>4. queue' \in Seq(Request) /\ QueueOK'
    BY <1>1, TalkMoves, QueueShrinks
  <2> QED
    BY <1>1, <2>1, <2>2, <2>3, <2>4, MoveKeeps
<1>3. CASE talk[r].op = "delete"
  <2>1. conversation' = "deleted" /\ messages' = {}
    BY <1>3 DEF Write, Changes
  <2>2. PICK row \in TalkRow : /\ talk' = [talk EXCEPT ![r] = row] /\ row.at = "ok"
                               /\ row.op = talk[r].op
    BY <1>1, TalkMoves
  <2>3. talk'[r] = row
    BY <2>2 DEF ConversationInv, ConversationTypeOK
  <2>4. \A q \in Request : Mine(q)' = {}
    BY <2>1 DEF Mine
  <2>5. Said' = {}
    BY <2>1 DEF Said
  <2>6. Sharers = {}
    BY <1>1 DEF Write, Blockers, Sharers, TalkAt
  <2>7. ASSUME NEW q \in Request \ {r} PROVE TalkOK(q)' /\ HeardOK(q)'
    <3>1. talk'[q] = talk[q] /\ TalkOK(q) /\ talk[q].at \notin {"answer", "save"}
      BY <2>2, <2>6 DEF Sharers, ConversationInv, ConversationTypeOK
    <3> QED
      BY <1>1, <2>1, <2>4, <3>1 DEF TalkOK, HeardOK, TalkAt
  <2>8. TalkOK(r)' /\ HeardOK(r)'
    BY <1>1, <1>3, <2>1, <2>2, <2>3, <2>4 DEF TalkOK, HeardOK, TalkAt
  <2>9. queue' \in Seq(Request) /\ QueueOK'
    BY <1>1, <2>2, QueueShrinks
  <2>10. ConversationTypeOK'
    <3>1. Message' = Message /\ inserted' \in Nat /\ inserted <= inserted' /\ messages' \subseteq Message'
      BY <1>1, <2>1 DEF Message
    <3>2. row \in TalkRow'
      BY <3>1 DEF TalkRow
    <3>3. conversation' \in {"none", "open", "archived", "deleted"}
      BY <2>1
    <3> QED
      BY <2>2, <2>9, <3>1, <3>2, <3>3, TalkTypes
  <2>11. IsFiniteSet(messages)'
    BY <2>1, FS_EmptySet
  <2> QED
    BY <2>1, <2>5, <2>7, <2>8, <2>9, <2>10, <2>11
    DEF ConversationInv, UniqueIds, SaidFirst, SaidInPairs
<1> QED
  BY <1>2, <1>3

LEMMA StartConversationKeeps ==
  ASSUME ConversationInv, NEW r \in Request, StartConversation(r)
  PROVE  ConversationInv'
<1> DEFINE row == [talk[r] EXCEPT !.op = "start", !.at = "ok"]
<1>1. /\ messages = {} /\ inserted = 0 /\ conversation' = "open" /\ UNCHANGED queue
      /\ talk' = [talk EXCEPT ![r] = row] /\ talk[r] \in TalkRow
      /\ \A q \in Request : TalkAt(q, "idle") /\ TalkOK(q)
  BY DEF StartConversation, ConversationInv, ConversationTypeOK, TalkOK, TalkRow
<1>2. row \in TalkRow /\ row.op = "start" /\ row.at = "ok"
  BY <1>1 DEF TalkRow
<1> HIDE DEF row
<1>3. talk'[r] = row
  BY <1>1 DEF ConversationInv, ConversationTypeOK
<1>4. \/ messages' = {} /\ inserted' = 0
      \/ messages' = {Asked(r, 1), Answered(r, 2)} /\ inserted' = 2
  BY <1>1 DEF StartConversation
<1>5. Sharers' = {}
  BY <1>1, <1>2, <1>3 DEF Sharers, TalkAt, ConversationInv, ConversationTypeOK
<1>6. Said' = messages'
  BY <1>5 DEF Said
<1>7. \A q \in Request \ {r} : Mine(q)' = {}
  BY <1>4 DEF Mine, Asked, Answered
<1>8. HasAnswer(r)' \/ Mine(r)' = {}
  <2>1. CASE messages' = {}
    BY <2>1 DEF Mine
  <2>2. CASE messages' = {Asked(r, 1), Answered(r, 2)}
    <3>1. Mine(r)' = {Asked(r, 1), Answered(r, 2)}
      BY <2>2 DEF Mine, Asked, Answered
    <3>2. \E i, j \in Nat : i < j /\ Mine(r)' = {Asked(r, i), Answered(r, j)}
      BY <3>1
    <3> QED
      BY <3>2 DEF HasAnswer, Asked, Answered
  <2> QED
    BY <1>4, <2>1, <2>2
<1>9. TalkOK(r)' /\ HeardOK(r)'
  BY <1>1, <1>2, <1>3, <1>8 DEF TalkOK, HeardOK, TalkAt
<1>10. ASSUME NEW q \in Request \ {r} PROVE TalkOK(q)' /\ HeardOK(q)'
  <2>1. talk'[q] = talk[q] /\ talk[q].at = "idle"
    BY <1>1 DEF TalkAt, ConversationInv, ConversationTypeOK
  <2> QED
    BY <1>7, <2>1 DEF TalkOK, HeardOK, TalkAt
<1>11. queue' \in Seq(Request) /\ QueueOK'
  BY <1>1, QueueStays DEF Wants, TalkAt
<1>12. ConversationTypeOK'
  <2>1. inserted' \in Nat /\ inserted <= inserted'
    BY <1>1, <1>4
  <2>2. messages' \subseteq Message'
    BY <1>4 DEF Message, Asked, Answered
  <2>3. Message \subseteq Message'
    BY <1>1 DEF Message
  <2>4. SUBSET Message \subseteq SUBSET Message'
    BY <2>3
  <2>5. row \in TalkRow'
    BY <1>2, <2>4 DEF TalkRow
  <2>6. conversation' \in {"none", "open", "archived", "deleted"}
    BY <1>1
  <2> QED
    BY <1>1, <1>11, <2>1, <2>2, <2>5, <2>6, TalkTypes
<1>13. IsFiniteSet(messages)' /\ UniqueIds(messages)'
  <2>1. IsFiniteSet({}) /\ IsFiniteSet({Asked(r, 1), Answered(r, 2)})
    BY FS_EmptySet, TwoMessages
  <2>2. IsFiniteSet(messages')
    BY <1>4, <2>1
  <2>3. UniqueIds(messages')
    BY <1>4 DEF UniqueIds, Asked, Answered
  <2> QED
    BY <2>2, <2>3 DEF UniqueIds
<1>14. SaidFirst'
  BY <1>6 DEF SaidFirst
<1>15. SaidInPairs'
  <2>1. CASE messages' = {}
    BY <1>6, <2>1 DEF SaidInPairs
  <2>2. CASE messages' = {Asked(r, 1), Answered(r, 2)}
    <3>1. Exchange(Asked(r, 1), Answered(r, 2), {Asked(r, 1), Answered(r, 2)})
      BY DEF Exchange, Asked, Answered
    <3>2. \A m \in messages' :
            \E q, a \in messages' : m \in {q, a} /\ Exchange(q, a, messages')
      BY <2>2, <3>1
    <3> QED
      BY <1>6, <3>2 DEF SaidInPairs, Exchange
  <2> QED
    BY <1>4, <2>1, <2>2
<1> QED
  BY <1>1, <1>9, <1>10, <1>11, <1>12, <1>13, <1>14, <1>15 DEF ConversationInv

\* Other services leave a conversation as it is.
LEMMA ConversationUnseen ==
  ASSUME ConversationInv, UNCHANGED conversationVars
  PROVE  ConversationInv'
<1>1. UNCHANGED <<conversation, messages, inserted, queue, talk>>
  BY DEF conversationVars
<1>2. Said' = Said /\ Message' = Message /\ \A q : Mine(q)' = Mine(q)
  BY <1>1 DEF Said, Sharers, Message, Mine
<1>3. ConversationTypeOK'
  BY <1>1, <1>2 DEF ConversationTypeOK, ConversationInv
<1>4. ASSUME NEW q \in Request PROVE TalkOK(q)' /\ HeardOK(q)'
  <2>1. TalkOK(q) /\ HeardOK(q)
    BY DEF ConversationInv
  <2> QED
    BY <1>1, <1>2, <2>1 DEF TalkOK, HeardOK, HeardRight, HasAnswer, TalkAt, Asked, Answered
<1>5. QueueOK'
  BY <1>1 DEF QueueOK, Once, Wants, ConversationInv
<1> QED
  BY <1>1, <1>2, <1>3, <1>4, <1>5 DEF ConversationInv, SaidFirst, SaidInPairs, UniqueIds, Exchange

LEMMA ConversationStepKeeps ==
  ASSUME ConversationInv, NEW r \in Request, ConversationStep(r)
  PROVE  ConversationInv'
<1>1. CASE \E change \in Changes : LoadForChange(r, change)
  BY <1>1, LoadForChangeKeeps
<1>2. CASE TalkFails(r)
  BY <1>2, RollBackKeeps DEF TalkFails
<1> QED
  BY <1>1, <1>2, StartConversationKeeps, LoadForSendKeeps, ReadHistoryKeeps, AskKeeps, AnswerKeeps,
     SaveKeeps, WaitForLockKeeps, BreakDeadlockKeeps, WriteKeeps DEF ConversationStep

LEMMA ConversationBegins == ConversationInit => ConversationInv
<1> SUFFICES ASSUME ConversationInit PROVE ConversationInv
  OBVIOUS
<1>1. conversation \in {"none", "open"} /\ messages = {} /\ inserted = 0 /\ queue = <<>>
  BY DEF ConversationInit
<1>2. talk = [r \in Request |-> [op |-> "none", at |-> "idle", heard |-> {}, before |-> {}]]
  BY DEF ConversationInit
<1>3. ConversationTypeOK
  BY <1>1, <1>2 DEF ConversationTypeOK
<1>4. QueueOK
  BY <1>1 DEF QueueOK, Once
<1>5. \A r \in Request : TalkOK(r) /\ HeardOK(r)
  BY <1>1, <1>2 DEF TalkOK, HeardOK, Mine, TalkAt
<1>6. IsFiniteSet(messages) /\ UniqueIds(messages) /\ SaidFirst /\ SaidInPairs
  BY <1>1, FS_EmptySet DEF UniqueIds, SaidFirst, SaidInPairs, Said
<1> QED
  BY <1>1, <1>3, <1>4, <1>5, <1>6 DEF ConversationInv

LEMMA ConversationKept ==
  ASSUME ConversationInv, [ConversationNext]_conversationVars
  PROVE  ConversationInv'
BY ConversationStepKeeps, ConversationUnseen DEF ConversationNext

\* The messages of a request that is done are said, and among what is said an
\* answer follows its question.
LEMMA ConversationInvImplies == ConversationInv => ConversationsAreWhole
<1> SUFFICES ASSUME ConversationInv PROVE ConversationsAreWhole
  OBVIOUS
<1>1. ExchangesAreWhole
  BY DEF ConversationInv, ExchangesAreWhole, SaidInPairs, UniqueIds
<1>2. AnsweredOnce
  <2> SUFFICES ASSUME NEW r \in Request
               PROVE  CASE TalkAt(r, "ok") /\ talk[r].op = "send" ->
                             \/ conversation = "deleted"
                             \/ \E q, a \in Mine(r) : Mine(r) = {q, a} /\ Exchange(q, a, Said)
                        [] talk[r].at \in {"refused", "failed"} -> Mine(r) = {}
                        [] OTHER -> Cardinality(Mine(r)) <= 2
    BY DEF AnsweredOnce, Mine
  <2>1. TalkOK(r) /\ talk[r].at \in {"idle", "read", "ask", "answer", "save", "write", "ok",
                                     "refused", "failed"}
    BY DEF ConversationInv, ConversationTypeOK
  <2>2. CASE TalkAt(r, "ok") /\ talk[r].op = "send"
    <3> SUFFICES ASSUME conversation # "deleted"
                 PROVE  \E q, a \in Mine(r) : Mine(r) = {q, a} /\ Exchange(q, a, Said)
      BY <2>2 DEF TalkAt
    <3>1. PICK i, j \in Nat : i < j /\ Mine(r) = {Asked(r, i), Answered(r, j)}
      BY <2>1, <2>2 DEF TalkOK, HasAnswer
    <3>2. Mine(r) \subseteq Said
      BY <2>2 DEF Mine, Said, Sharers, TalkAt
    <3>3. PICK q \in Said, a \in Said : Asked(r, i) \in {q, a} /\ Exchange(q, a, Said)
      BY <3>1, <3>2 DEF ConversationInv, SaidInPairs
    <3>4. q = Asked(r, i)
      BY <3>3 DEF Exchange, Asked
    <3>5. a \in Mine(r) /\ a # Asked(r, i)
      BY <3>3, <3>4 DEF Exchange, Asked, Mine, Said
    <3>6. a = Answered(r, j)
      BY <3>1, <3>5
    <3> QED
      BY <3>1, <3>3, <3>4, <3>6
  <2>3. CASE talk[r].at \in {"refused", "failed"}
    BY <2>1, <2>3 DEF TalkOK, TalkAt
  <2>4. Cardinality(Mine(r)) <= 2
    <3>1. Cardinality({}) = 0
      BY FS_EmptySet
    <3>2. \A i : Cardinality({Asked(r, i)}) = 1
      BY FS_Singleton
    <3>3. \A i, j : Cardinality({Asked(r, i), Answered(r, j)}) = 2
      BY TwoMessages
    <3>4. \/ Mine(r) = {}
          \/ \E i : Mine(r) = {Asked(r, i)}
          \/ \E i, j : Mine(r) = {Asked(r, i), Answered(r, j)}
      BY <2>1 DEF TalkOK, HasAnswer, TalkAt
    <3> QED
      BY <3>1, <3>2, <3>3, <3>4
  <2> QED
    BY <2>2, <2>3, <2>4
<1>3. HeardFromTheStart
  BY DEF ConversationInv, HeardFromTheStart, HeardOK, HeardRight, TalkAt
<1> QED
  BY <1>1, <1>2, <1>3 DEF ConversationsAreWhole

\* The rows of a conversation, its queue and its requests keep their types.
THEOREM ConversationTypesAreKept == ConversationSpec => []ConversationTypeOK
<1>1. ConversationInit => ConversationInv
  BY ConversationBegins
<1>2. ConversationInv /\ [ConversationNext]_<<conversationVars, faults>> => ConversationInv'
  BY ConversationKept
<1>3. ConversationInv => ConversationTypeOK
  BY DEF ConversationInv
<1> QED
  BY <1>1, <1>2, <1>3, PTL DEF ConversationSpec

\* Overlapping sends, archiving, deletion and rollbacks leave a conversation of
\* whole exchanges, each answered knowing those before it.
THEOREM ExchangesStayWhole == ConversationSpec => []ConversationsAreWhole
<1>1. ConversationInit => ConversationInv
  BY ConversationBegins
<1>2. ConversationInv /\ [ConversationNext]_<<conversationVars, faults>> => ConversationInv'
  BY ConversationKept
<1> QED
  BY <1>1, <1>2, ConversationInvImplies, PTL DEF ConversationSpec

-----------------------------------------------------------------------------
(* The services side by side *)

\* What each service keeps; they share the requests and the failures only.
WorkspaceInv ==
  /\ IInv /\ PracticeInv /\ TaxonomyInv /\ ConversationInv /\ CompanyInv
  /\ FeedInv /\ CacheOK

\* A step of one service is a stutter of the others, whatever fails.
LEMMA ServicesStep ==
  ASSUME [WorkspaceNext]_workspaceVars
  PROVE  /\ [AccountNext]_accountVars /\ [InterviewNext]_interviewVars
         /\ [TaxonomyNext]_taxonomyVars /\ [ConversationNext]_conversationVars
         /\ [CompanyNext]_companyVars /\ [FeedNext]_feedVars
<1>1. CASE WorkspaceNext
  <2> DEFINE A == UNCHANGED accountVars
             I == UNCHANGED interviewVars
             T == UNCHANGED taxonomyVars
             V == UNCHANGED conversationVars
             C == UNCHANGED companyVars
             F == UNCHANGED feedVars
  <2>1. \/ AccountNext /\ I /\ T /\ V /\ C /\ F
        \/ InterviewNext /\ A /\ T /\ V /\ C /\ F
        \/ TaxonomyNext /\ A /\ I /\ V /\ C /\ F
        \/ ConversationNext /\ A /\ I /\ T /\ C /\ F
        \/ CompanyNext /\ A /\ I /\ T /\ V /\ F
        \/ FeedNext /\ A /\ I /\ T /\ V /\ C
    BY <1>1 DEF WorkspaceNext, TaxonomyNext
  <2> QED
    BY <2>1
<1>2. CASE UNCHANGED workspaceVars
  BY <1>2 DEF workspaceVars
<1> QED
  BY <1>1, <1>2

\* So each keeps its own.
LEMMA WorkspaceStepKeeps ==
  ASSUME WorkspaceInv, [WorkspaceNext]_workspaceVars
  PROVE  WorkspaceInv'
BY ServicesStep, NextIInv, NextPracticeInv, TaxonomyKept, ConversationKept, CompanyNextKeeps,
   NextFeedInv, NextCacheOK
DEF WorkspaceInv

\* Every service starts right and stays so.
LEMMA WorkspaceInvHolds == WorkspaceSpec => []WorkspaceInv
<1>1. WorkspaceInit => WorkspaceInv
  BY InitIInv, InitPracticeInv, TaxonomyBegins, ConversationBegins, InitCompanyInv, InitFeedInv,
     InitCacheOK
  DEF WorkspaceInit, WorkspaceInv
<1>2. WorkspaceInv /\ [WorkspaceNext]_workspaceVars => WorkspaceInv'
  BY WorkspaceStepKeeps
<1> QED
  BY <1>1, <1>2, PTL DEF WorkspaceSpec

\* The rows and the requests of all services keep their types.
THEOREM WorkspaceTyped == WorkspaceSpec => []WorkspaceTypeOK
<1>1. WorkspaceInv => WorkspaceTypeOK
  BY TaxonomyTyped, ConversationInvImplies, CompanyInvImplies, FeedInvImplies
  DEF WorkspaceInv, IInv, PracticeInv, TaxonomyInv, ConversationInv, WorkspaceTypeOK
<1> QED
  BY <1>1, WorkspaceInvHolds, PTL

\* Accounts, interview practice, the taxonomy, conversations and companies keep what
\* they promise in the server that runs them all, where one of them may use up the
\* failures another one then does not see.
THEOREM ServicesStayRight ==
  WorkspaceSpec =>
    [](/\ CodesAccounted /\ PracticeAddsUp /\ ToldIsHeld /\ MatchExplained
       /\ ConversationsAreWhole /\ CompaniesKeepTheirs)
<1>1. WorkspaceInv =>
        /\ CodesAccounted /\ PracticeAddsUp /\ ToldIsHeld /\ MatchExplained
        /\ ConversationsAreWhole /\ CompaniesKeepTheirs
  BY ConversationInvImplies, CompanyInvImplies
  DEF WorkspaceInv, IInv, PracticeInv, TaxonomyInv
<1> QED
  BY <1>1, WorkspaceInvHolds, PTL

\* And the feed answers what is current there too: no step of another service comes
\* between an entry of the cache and what it was computed from.
THEOREM FeedStaysCurrent == WorkspaceSpec => FeedIsCurrent
<1>1. WorkspaceInv /\ [WorkspaceNext]_workspaceVars
        => [requested' # requested => Presents(answer'.page, answer'.feed)]_feedVars
  BY ServicesStep, NextAnswersCurrent DEF WorkspaceInv
<1> QED
  BY <1>1, WorkspaceInvHolds, PTL DEF WorkspaceSpec, FeedIsCurrent
=============================================================================
