------------------------------ MODULE Company ------------------------------
(***************************************************************************)
(* Companies, their aliases and their job posts                            *)
(* (src/Backend/src/services/company.service.js, createJobPost of          *)
(* job.service.js, and the company of an imported vacancy in               *)
(* jobIngestion.service.js).                                               *)
(*                                                                         *)
(* A merge reads both companies and then moves posts and aliases, adds an  *)
(* alias and deletes the source in one transaction, whose first update     *)
(* locks the posts of the source, gaps included.  Foreign keys refuse a    *)
(* post or an alias of a company that is gone; unique indexes refuse a     *)
(* second company or alias of one name, so looking for a name and          *)
(* inserting it is one step.  A name stands for its normalized form; the   *)
(* is_verified mark and the other columns are left out.                    *)
(***************************************************************************)
EXTENDS Requests

CONSTANTS
  CompanyName,         \* normalized names
  Acme, Bell,          \* names of the two companies there are at first
  MaxCompanies         \* bound: companies created

CompanyIds == 1..MaxCompanies
NoCompany == 0
Nameless == "nameless"

ASSUME CompanyAssumption ==
  /\ MaxCompanies \in Nat \ 0..1
  /\ {Acme, Bell} \subseteq CompanyName /\ Acme # Bell /\ Nameless \notin CompanyName

VARIABLES
  company,   \* company[c]: name of company c, Nameless when there is no such row
  alias,     \* alias[n]: company that alias n stands for, or NoCompany
  post,      \* post[r]: company of the job_posts row that request r made, or NoCompany
  file,      \* file[r]: what request r does and what it has read
  created,   \* companies created so far
  heir,      \* history, heir[c]: c, or the company that it has been merged into
  bearer,    \* history, bearer[n]: last company of name n, unless it was renamed
  strayed    \* history: names that a merge could not take along

companyVars == <<company, alias, post, file, created, heir, bearer, strayed>>

CompanyInit ==
  /\ company = [c \in CompanyIds |-> CASE c = 1 -> Acme [] c = 2 -> Bell [] OTHER -> Nameless]
  /\ alias = [n \in CompanyName |-> NoCompany]
  /\ post = [r \in Request |-> NoCompany]
  /\ file = [r \in Request |-> [op |-> "none", at |-> "idle", source |-> NoCompany,
                                target |-> NoCompany, name |-> Nameless]]
  /\ created = 2
  /\ heir = [c \in CompanyIds |-> c]
  /\ bearer = [n \in CompanyName |-> CASE n = Acme -> 1 [] n = Bell -> 2 [] OTHER -> NoCompany]
  /\ strayed = {}

Known(c) == company[c] # Nameless
Named(n) == {c \in CompanyIds : company[c] = n}

FileAt(r, at) == file[r].at = at
FileTo(r, at) == file' = [file EXCEPT ![r].at = at]

\* A new company, which takes the next id.
Found(n) ==
  /\ created < MaxCompanies
  /\ created' = created + 1
  /\ company' = [company EXCEPT ![created'] = n]
  /\ bearer' = [bearer EXCEPT ![n] = created']

CreateCompany(r, n) ==
  /\ FileAt(r, "idle")
  /\ file' = [file EXCEPT ![r].op = "create", ![r].at = IF Named(n) = {} THEN "ok" ELSE "refused"]
  /\ IF Named(n) = {} THEN Found(n) ELSE UNCHANGED <<created, company, bearer>>
  /\ UNCHANGED <<alias, post, heir, strayed, faults>>

\* updateCompany: the old name is dropped, no alias keeps it.
RenameCompany(r, c, n) ==
  /\ FileAt(r, "idle")
  /\ file' = [file EXCEPT ![r].op = "rename",
                          ![r].at = IF Known(c) /\ Named(n) \subseteq {c} THEN "ok" ELSE "refused"]
  /\ IF Known(c) /\ Named(n) = {}
     THEN /\ company' = [company EXCEPT ![c] = n]
          /\ bearer' = [bearer EXCEPT ![company[c]] = NoCompany, ![n] = c]
     ELSE UNCHANGED <<company, bearer>>
  /\ UNCHANGED <<alias, post, created, heir, strayed, faults>>

-----------------------------------------------------------------------------
(* mergeCompanies *)

LoadSource(r, c, d) ==
  /\ FileAt(r, "idle")
  /\ c # d
  /\ file' = [file EXCEPT ![r] = [op |-> "merge", at |-> IF Known(c) THEN "target" ELSE "refused",
                                  source |-> c, target |-> d, name |-> company[c]]]
  /\ UNCHANGED <<company, alias, post, created, heir, bearer, strayed, faults>>

LoadTarget(r) ==
  /\ FileAt(r, "target")
  /\ FileTo(r, IF Known(file[r].target) THEN "merge" ELSE "refused")
  /\ UNCHANGED <<company, alias, post, created, heir, bearer, strayed, faults>>

\* The target of the rows of a company that is merged.
Moved(c, d, row) == IF row = c THEN d ELSE row

\* Mutant: the aliases of the source are deleted with it.
AliasesAfter_Dropped(c, d, n) ==
  [m \in CompanyName |-> IF alias[m] = c THEN NoCompany
                         ELSE IF alias[m] = NoCompany /\ m = n THEN d ELSE alias[m]]

\* The aliases of the source, and its name as it was read unless that is an
\* alias already, are aliases of the target.
AliasesAfter(c, d, n) ==
  [m \in CompanyName |-> IF alias[m] = NoCompany /\ m = n THEN d ELSE Moved(c, d, alias[m])]

\* Foreign keys refuse rows that would go to a target that is gone.
Movable(c, d, n) ==
  \/ Known(d)
  \/ /\ alias[n] \notin {c, NoCompany}
     /\ \A q \in Request : post[q] # c
     /\ \A m \in CompanyName : alias[m] # c

\* The name of the source is not taken along: it is not the one that was read,
\* or an alias to another company already.
Strays(c, d, n) ==
  {m \in CompanyName : m = company[c] /\ (m # n \/ alias[m] \notin {NoCompany, c, d})}

Merge(r) ==
  LET c == file[r].source
      d == file[r].target
      n == file[r].name
  IN
  /\ FileAt(r, "merge")
  /\ IF Movable(c, d, n)
     THEN /\ post' = [q \in Request |-> Moved(c, d, post[q])]
          /\ alias' = AliasesAfter(c, d, n)
          /\ company' = [company EXCEPT ![c] = Nameless]
          /\ heir' = IF Known(c) THEN [x \in CompanyIds |-> Moved(c, heir[d], heir[x])] ELSE heir
          /\ strayed' = strayed \cup Strays(c, d, n)
          /\ FileTo(r, "ok")
     ELSE FileTo(r, "failed") /\ UNCHANGED <<company, alias, post, heir, strayed>>
  /\ UNCHANGED <<created, bearer, faults>>

-----------------------------------------------------------------------------
(* Posts *)

\* createJobPost looks for its company ...
FindCompany(r, c) ==
  /\ FileAt(r, "idle")
  /\ file' = [file EXCEPT ![r].op = "post", ![r].source = c,
                          ![r].at = IF Known(c) THEN "insert" ELSE "refused"]
  /\ UNCHANGED <<company, alias, post, created, heir, bearer, strayed, faults>>

\* ... as an import does, by name ...
LookByName(r, n) ==
  /\ FileAt(r, "idle")
  /\ \/ /\ Named(n) = {}
        /\ file' = [file EXCEPT ![r].op = "import", ![r].at = "alias", ![r].name = n]
     \/ \E c \in Named(n) :
          file' = [file EXCEPT ![r].op = "import", ![r].at = "insert", ![r].name = n, ![r].source = c]
  /\ UNCHANGED <<company, alias, post, created, heir, bearer, strayed, faults>>

\* ... then by alias ...
LookByAlias(r) ==
  /\ FileAt(r, "alias")
  /\ file' = [file EXCEPT ![r].source = alias[file[r].name],
                          ![r].at = IF alias[file[r].name] = NoCompany THEN "found" ELSE "insert"]
  /\ UNCHANGED <<company, alias, post, created, heir, bearer, strayed, faults>>

\* ... and makes a new company if neither is there ...
FoundCompany(r) ==
  /\ FileAt(r, "found")
  /\ IF Named(file[r].name) = {}
     THEN /\ Found(file[r].name)
          /\ file' = [file EXCEPT ![r].source = created', ![r].at = "insert"]
     ELSE FileTo(r, "failed") /\ UNCHANGED <<created, company, bearer>>
  /\ UNCHANGED <<alias, post, heir, strayed, faults>>

\* ... and inserts the post, which its foreign key may refuse.
InsertPost(r) ==
  /\ FileAt(r, "insert")
  /\ IF Known(file[r].source)
     THEN post' = [post EXCEPT ![r] = file[r].source] /\ FileTo(r, "ok")
     ELSE FileTo(r, "failed") /\ UNCHANGED post
  /\ UNCHANGED <<company, alias, created, heir, bearer, strayed, faults>>

FileFails(r) ==
  /\ file[r].at \in {"target", "merge", "alias", "found", "insert"}
  /\ Fault
  /\ FileTo(r, "failed")
  /\ UNCHANGED <<company, alias, post, created, heir, bearer, strayed>>

CompanyStep(r) ==
  \/ \E n \in CompanyName : CreateCompany(r, n) \/ LookByName(r, n)
  \/ \E c \in CompanyIds, n \in CompanyName : RenameCompany(r, c, n)
  \/ \E c, d \in CompanyIds : LoadSource(r, c, d)
  \/ \E c \in CompanyIds : FindCompany(r, c)
  \/ LoadTarget(r) \/ Merge(r)
  \/ LookByAlias(r) \/ FoundCompany(r) \/ InsertPost(r)
  \/ FileFails(r)

CompanyNext == \E r \in Request : CompanyStep(r)

CompanySpec == CompanyInit /\ faults = 0 /\ [][CompanyNext]_<<companyVars, faults>>

-----------------------------------------------------------------------------
(* Properties *)

FileRow == [op : {"none", "create", "rename", "merge", "post", "import"},
            at : {"idle", "target", "merge", "alias", "found", "insert", "ok", "refused", "failed"},
            source : CompanyIds \cup {NoCompany}, target : CompanyIds \cup {NoCompany},
            name : CompanyName \cup {Nameless}]

CompanyTypeOK ==
  /\ company \in [CompanyIds -> CompanyName \cup {Nameless}]
  /\ alias \in [CompanyName -> CompanyIds \cup {NoCompany}]
  /\ post \in [Request -> CompanyIds \cup {NoCompany}]
  /\ file \in [Request -> FileRow]
  /\ created \in 2..MaxCompanies
  /\ heir \in [CompanyIds -> CompanyIds]
  /\ bearer \in [CompanyName -> CompanyIds \cup {NoCompany}]
  /\ strayed \subseteq CompanyName

\* What an import finds for a name.
LeadsTo(n) == IF Named(n) # {} THEN Named(n) ELSE {alias[n]} \ {NoCompany}

\* A post that a request reported as stored is there, with the company it was
\* stored for or the one that company has been merged into.
PostsFollow ==
  \A r \in Request :
    FileAt(r, "ok") /\ file[r].op \in {"post", "import"} =>
      post[r] = heir[file[r].source] /\ Known(post[r])

\* The name of a merged company leads imports to the company it was merged
\* into, except a name the merge could not take along.
NamesFollow ==
  \A n \in CompanyName \ strayed :
    bearer[n] # NoCompany => LeadsTo(n) = {heir[bearer[n]]}

\* Posts and names follow their companies through every sequence of merges,
\* renames, imports and failures.
CompaniesKeepTheirs == PostsFollow /\ NamesFollow
=============================================================================
