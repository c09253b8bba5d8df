-------------------------- MODULE VersionedContent --------------------------
(***************************************************************************)
(* Content that is shown only in an approved version: answers              *)
(* (domain/answers.ts) and knowledge articles (domain/knowledge.ts).  An   *)
(* identity shows a copy of its live version while a next version is       *)
(* drafted and reviewed.  The two differ in who may be edited and in how   *)
(* an identity ends.  A call reads what it decides on, and writes in a     *)
(* transaction of its own, so the calls of several users overlap.          *)
(*                                                                         *)
(* The words of the two kinds are one here: "review" is pending and        *)
(* in_review, "live" approved and published, "past" retired and            *)
(* superseded.  Titles and metadata are left out.                          *)
(***************************************************************************)
EXTENDS Naturals

CONSTANTS
    Editors,     \* users with calls under way
    Texts,       \* what a version says
    MaxVersions, \* bound on the versions of an identity
    Blank        \* null, and the empty text

VARIABLES
    kind,     \* "answer" or "article"
    content,  \* the identity: its status, what it shows, its current version
    version,  \* AnswerVersion or KnowledgeVersion, by number
    edits,    \* the call of each editor, as of what it has read
    outdated  \* history: an edit, a submission or an approval was written
              \* although what it had read had changed

contentvars == <<kind, content, version, edits, outdated>>

Numbers == 1 .. MaxVersions

In(statuses) == {n \in Numbers : version[n] # Blank /\ version[n].status \in statuses}

Greatest(S) == CHOOSE n \in S : \A k \in S : n >= k

AllStatuses == {"draft", "review", "live", "past"}

(* updateAnswerDraft edits drafts only, updateArticleDraft also what is    *)
(* being reviewed.                                                         *)
Editable == IF kind = "answer" THEN {"draft"} ELSE {"draft", "review"}

(* The statuses in which a call looks for its version. *)
Sought(op) ==
    CASE op = "update"  -> Editable
      [] op = "submit"  -> {"draft"}
      [] op = "approve" -> {"review"}
      [] op \in {"revise", "end"} -> AllStatuses

-----------------------------------------------------------------------------

(* createAnswerDraft, createArticleDraft *)
Create(t) ==
    /\ content = Blank
    /\ content' = [status |-> "draft", shown |-> Blank, current |-> 1]
    /\ version' = [version EXCEPT ![1] = [status |-> "draft", text |-> t]]
    /\ UNCHANGED <<kind, edits, outdated>>

(* The reads of a call, and its refusals: an archived identity, no version *)
(* to work on, or for a revision one that is still open.                   *)
Begin(c, op, t) ==
    LET found == In(Sought(op)) IN
    /\ edits[c] = Blank
    /\ content # Blank /\ content.status # "archived"
    /\ found # {}
    /\ op = "revise" => In({"draft", "review"}) = {} /\ Greatest(found) < MaxVersions
    /\ edits' = [edits EXCEPT ![c] =
                   [op |-> op, number |-> Greatest(found), status |-> content.status,
                    row |-> version[Greatest(found)], text |-> t]]
    /\ UNCHANGED <<kind, content, version, outdated>>

(* A transaction ends its call. *)
Written(c) ==
    /\ edits' = [edits EXCEPT ![c] = Blank]
    /\ outdated' = (outdated \/ (edits[c].op \in {"update", "submit", "approve"}
                                /\ (edits[c].status # content.status
                                    \/ edits[c].row # version[edits[c].number])))
    /\ UNCHANGED kind

Writing(c, op) == edits[c] # Blank /\ edits[c].op = op

Update(c) ==
    /\ Writing(c, "update")
    /\ version' = [version EXCEPT ![edits[c].number].text = edits[c].text]
    /\ Written(c)
    /\ UNCHANGED content

(* createAnswerRevision, createArticleRevision: one more than the last; if *)
(* that number has been taken meanwhile, the unique key refuses it.        *)
Revise(c) ==
    LET n == edits[c].number + 1 IN
    /\ Writing(c, "revise")
    /\ IF version[n] = Blank
       THEN version' = [version EXCEPT ![n] = [status |-> "draft", text |-> edits[c].text]]
       ELSE UNCHANGED version
    /\ Written(c)
    /\ UNCHANGED content

(* submitAnswerForApproval, submitArticleForReview: what is live stays so. *)
Submit(c) ==
    /\ Writing(c, "submit")
    /\ version' = [version EXCEPT ![edits[c].number].status = "review"]
    /\ content' = [content EXCEPT !.status =
                     IF edits[c].status = "live" THEN "live" ELSE "review"]
    /\ Written(c)

(* Variant: the version that was live is not superseded. *)
ApproveBeside(c) ==
    LET n == edits[c].number IN
    /\ Writing(c, "approve")
    /\ version' = [version EXCEPT ![n].status = "live"]
    /\ content' = [status |-> "live", shown |-> edits[c].row.text, current |-> n]
    /\ Written(c)

(* approveAnswer, publishArticle *)
Approve(c) ==
    LET n == edits[c].number IN
    /\ Writing(c, "approve")
    /\ version' = [k \in Numbers |->
                     IF k = n THEN [version[k] EXCEPT !.status = "live"]
                     ELSE IF k \in In({"live"}) THEN [version[k] EXCEPT !.status = "past"]
                     ELSE version[k]]
    /\ content' = [status |-> "live", shown |-> edits[c].row.text, current |-> n]
    /\ Written(c)

(* retireAnswer: with its approved version; it may be revised again. *)
RetireAnswer(c) ==
    /\ kind = "answer" /\ Writing(c, "end")
    /\ content' = [content EXCEPT !.status = "past"]
    /\ version' = [k \in Numbers |-> IF k \in In({"live"})
                                     THEN [version[k] EXCEPT !.status = "past"]
                                     ELSE version[k]]
    /\ Written(c)

(* archiveArticle: its versions stay as they are. *)
ArchiveArticle(c) ==
    /\ kind = "article" /\ Writing(c, "end")
    /\ content' = [content EXCEPT !.status = "archived"]
    /\ Written(c)
    /\ UNCHANGED version

-----------------------------------------------------------------------------

Init ==
    /\ kind \in {"answer", "article"}
    /\ content = Blank
    /\ version = [n \in Numbers |-> Blank]
    /\ edits = [c \in Editors |-> Blank]
    /\ outdated = FALSE

Next ==
    \/ \E t \in Texts : Create(t)
    \/ \E c \in Editors :
        \/ \E op \in {"update", "revise"}, t \in Texts : Begin(c, op, t)
        \/ \E op \in {"submit", "approve", "end"} : Begin(c, op, Blank)
        \/ Update(c) \/ Revise(c) \/ Submit(c) \/ Approve(c)
        \/ RetireAnswer(c) \/ ArchiveArticle(c)

Spec == Init /\ [][Next]_contentvars

-----------------------------------------------------------------------------

(* "exactly one is current" (answers.ts:157, knowledge.ts:52) *)
ShowsItsLiveVersion ==
    /\ content.status = "live" =>
          /\ In({"live"}) = {content.current}
          /\ content.shown = version[content.current].text
    /\ content.status \notin {"live", "archived"} => In({"live"}) = {}

AtMostOneOpen ==
    \A n, k \in In({"draft", "review"}) : n = k

(* As long as no edit, submission or approval was written on a status or a *)
(* version that had changed since it was read, and however revisions,      *)
(* retirements and archivals overlap: an identity that is live shows, word *)
(* for word, its single live version, no other identity has one, and at    *)
(* most one next version is open (domain/answers.ts:88-182,                *)
(* domain/knowledge.ts:81-169).                                            *)
OneLiveVersion ==
    content # Blank /\ ~outdated => ShowsItsLiveVersion /\ AtMostOneOpen

=============================================================================
