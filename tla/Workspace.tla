----------------------------- MODULE Workspace -----------------------------
(***************************************************************************)
(* The services behind a signed-in user's pages, side by side: accounts    *)
(* and their codes, interview practice, the skill taxonomy, conversations  *)
(* with the mentor, companies with their job posts, and the recommendation *)
(* feed of the AI service.                                                 *)
(*                                                                         *)
(* They share the pool of requests and the calls that may fail, and no     *)
(* table.  What one of them does between two steps of another changes      *)
(* nothing for it, so a behaviour exercises one service, and the state     *)
(* spaces are added to each other and not multiplied.                      *)
(***************************************************************************)
EXTENDS Account, Interview, Taxonomy, Conversation, Company, Feed

CONSTANT MaxWork   \* bound: requests of a behaviour that exercises the taxonomy

ASSUME WorkspaceAssumption == MaxWork \in Nat

VARIABLE service   \* the service this behaviour exercises

workspaceVars ==
  <<accountVars, interviewVars, taxonomyVars, conversationVars, companyVars, feedVars, faults, service>>

\* A service that is not exercised stays as it is, so one of its initial states
\* stands for all of them.
WorkspaceInit ==
  /\ service \in {"account", "interview", "taxonomy", "conversation", "company", "feed"}
  /\ faults = 0
  /\ AccountInit /\ InterviewInit /\ TaxonomyInit /\ ConversationInit /\ CompanyInit /\ FeedInit
  /\ service # "account" => ~user.exists /\ ~static
  /\ service # "interview" => session.status = "none"
  /\ service # "conversation" => conversation = "none"
  /\ service # "taxonomy" => outdated = {} /\ made.links = 1 /\ \A n \in Name : aliases[n] = NoSkill

\* Requests that have started on the taxonomy.
Works == {r \in Request : ~WorkAt(r, "idle")}

WorkspaceNext ==
  /\ UNCHANGED service
  /\ \/ /\ service = "account"
        /\ AccountNext
        /\ UNCHANGED <<interviewVars, taxonomyVars, conversationVars, companyVars, feedVars>>
     \/ /\ service = "interview"
        /\ InterviewNext
        /\ UNCHANGED <<accountVars, taxonomyVars, conversationVars, companyVars, feedVars>>
     \/ /\ service = "taxonomy"
        /\ \E r \in Request : /\ WorkAt(r, "idle") => Cardinality(Works) < MaxWork
                              /\ TaxonomyStep(r)
        /\ UNCHANGED <<accountVars, interviewVars, conversationVars, companyVars, feedVars>>
     \/ /\ service = "conversation"
        /\ ConversationNext
        /\ UNCHANGED <<accountVars, interviewVars, taxonomyVars, companyVars, feedVars>>
     \/ /\ service = "company"
        /\ CompanyNext
        /\ UNCHANGED <<accountVars, interviewVars, taxonomyVars, conversationVars, feedVars>>
     \/ /\ service = "feed"
        /\ FeedNext
        /\ UNCHANGED <<accountVars, interviewVars, taxonomyVars, conversationVars, companyVars, faults>>

WorkspaceSpec == WorkspaceInit /\ [][WorkspaceNext]_workspaceVars

-----------------------------------------------------------------------------
\* The rows and the requests of all services keep their types.
WorkspaceTypeOK ==
  AccountTypeOK /\ InterviewTypeOK /\ TaxonomyTypeOK /\ ConversationTypeOK /\ CompanyTypeOK
  /\ FeedTypeOK
=============================================================================
