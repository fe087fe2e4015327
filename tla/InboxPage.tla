------------------------------- MODULE InboxPage -------------------------------
(***************************************************************************)
(* The reviews and the messages of the back office                         *)
(* (reviews/reviews-client.tsx, messages/messages-client.tsx): two pages   *)
(* with one behaviour, of which at most one is mounted.  A review is       *)
(* approved, rejected or deleted, a message marked as read or deleted;     *)
(* either way the list is loaded again.                                    *)
(*                                                                         *)
(* Filters stand for the three buttons above the list; inboxWrites counts  *)
(* as in ProductsPage, and lateInbox holds what lateProducts holds there.  *)
(***************************************************************************)
EXTENDS AdminSession

CONSTANTS
  Entries,         \* bound: reviews or messages of a list
  InboxFilters,    \* the filter buttons
  FirstFilter,     \* "pending" of reviews, "unread" of messages
  LastInboxPage,   \* bound: pages of the list
  MaxInboxWrites   \* bound: changes made

ASSUME FilterAssumption == FirstFilter \in InboxFilters

VARIABLES
  inboxQuery,     \* page and filter
  inboxLoad,      \* the list request of the effect that is not cancelled, or Nothing
  lateInbox,      \* query and read of cancelled ones whose body is being read
  inboxList,      \* reviews or messages and meta, or Nothing
  inboxLoading,   \* loading
  inboxFailed,    \* error # null: the page shows nothing else
  reading,        \* viewReview, viewMessage, or Nothing
  inboxWrites,    \* changes in the database since the page was opened
  inboxAcked      \* those made before the last answer that asked for a reload

inboxVars == <<inboxQuery, inboxLoad, lateInbox, inboxList, inboxLoading, inboxFailed,
               reading, inboxWrites, inboxAcked>>

FirstInboxQuery == [page |-> 1, filter |-> FirstFilter]

--------------------------------------------------------------------------------

InboxRequest(q) ==
  IF stored = Nothing THEN Nothing
  ELSE [token |-> stored, query |-> q, done |-> FALSE, read |-> 0]

LoadInbox_OneAtATime(q) ==
  /\ inboxLoad' = IF inboxLoad # Nothing THEN inboxLoad ELSE InboxRequest(q)
  /\ UNCHANGED lateInbox

(* The load effect, as in ProductsPage.                                    *)
LoadInbox(q) ==
  /\ inboxLoad' = InboxRequest(q)
  /\ \/ UNCHANGED lateInbox
     \/ /\ inboxLoad # Nothing /\ inboxLoad.done /\ Cardinality(lateInbox) < MaxLate
        /\ lateInbox' = lateInbox \cup {[query |-> inboxLoad.query, read |-> inboxLoad.read]}

ServeInbox ==
  /\ inboxLoad # Nothing /\ ~inboxLoad.done /\ inboxLoad.token \in live
  /\ inboxLoad' = [inboxLoad EXCEPT !.done = TRUE, !.read = inboxWrites]
  /\ UNCHANGED <<inboxQuery, lateInbox, inboxList, inboxLoading, inboxFailed, reading,
                 inboxWrites, inboxAcked, adminVars>>

InboxAnswered ==
  /\ inboxLoad # Nothing
  /\ inboxLoad' = Nothing /\ inboxLoading' = FALSE
  /\ \E reply \in Outcomes(inboxLoad), pages \in 0..LastInboxPage :
       /\ SignOutOn(reply)
       /\ inboxFailed' = (reply # "ok")
       /\ inboxList' = IF reply = "ok"
                       THEN [query |-> inboxLoad.query, pages |-> pages, read |-> inboxLoad.read]
                       ELSE inboxList
  /\ UNCHANGED <<inboxQuery, lateInbox, reading, inboxWrites, inboxAcked, live, shown, check,
                 calls>>

(* The body of a cancelled load, as in ProductsPage.                       *)
LateInboxAnswered ==
  \E l \in lateInbox, pages \in 0..LastInboxPage :
    /\ lateInbox' = lateInbox \ {l}
    /\ \/ /\ inboxList' = [query |-> l.query, pages |-> pages, read |-> l.read]
          /\ inboxFailed' = FALSE
       \/ UNCHANGED <<inboxList, inboxFailed>>
    /\ UNCHANGED <<inboxQuery, inboxLoad, inboxLoading, reading, inboxWrites, inboxAcked,
                   adminVars>>

(* Early returns of the page: nothing but "Loading", nothing but the error. *)
InboxShown == ~inboxLoading /\ ~inboxFailed /\ reading = Nothing

EntriesShown == InboxShown /\ inboxList # Nothing /\ inboxList.query.page <= inboxList.pages

RowsOfReviews == shown = "reviews" /\ EntriesShown
RowsOfMessages == shown = "messages" /\ EntriesShown

(* The effect runs again when the page or the filter is another.           *)
AskInbox(q) ==
  /\ inboxQuery' = q
  /\ IF q = inboxQuery THEN UNCHANGED <<inboxLoad, lateInbox>> ELSE LoadInbox(q)
  /\ UNCHANGED <<inboxList, inboxLoading, inboxFailed, reading, inboxWrites, inboxAcked,
                 adminVars>>

(* A filter button, also one of an empty list: setFilter, setPage(1).      *)
FilterInbox ==
  /\ shown \in {"reviews", "messages"} /\ InboxShown
  /\ \E f \in InboxFilters : AskInbox([page |-> 1, filter |-> f])

(* Previous and Next count from the page asked for.                        *)
TurnInbox ==
  /\ RowsOfReviews \/ RowsOfMessages
  /\ inboxList.pages > 1
  /\ \E p \in 1..LastInboxPage :
       /\ \/ p = inboxQuery.page - 1
          \/ p = inboxQuery.page + 1 /\ p <= inboxList.pages
          \/ p = inboxList.pages /\ p < inboxQuery.page
       /\ AskInbox([inboxQuery EXCEPT !.page = p])

(* approveReview, rejectReview, and deleteReview once confirmed.  No       *)
(* button is disabled meanwhile.                                           *)
ModerateReview(e) ==
  /\ RowsOfReviews
  /\ Send("entry", e, Nothing)
  /\ UNCHANGED <<inboxVars, live, shown, check>>

(* markAsRead, and deleteMessage once confirmed.                           *)
ChangeMessage(e) ==
  /\ RowsOfMessages
  /\ Send("entry", e, Nothing)
  /\ UNCHANGED <<inboxVars, live, shown, check>>

(* The API makes the change, also of an entry that is gone.                *)
ServeEntryChange ==
  \E c \in Asked("entry") :
    /\ ~c.done /\ c.token \in live
    /\ inboxWrites < MaxInboxWrites /\ inboxWrites' = inboxWrites + 1
    /\ calls' = (calls \ {c}) \cup {[c EXCEPT !.done = TRUE]}
    /\ UNCHANGED <<inboxQuery, inboxLoad, lateInbox, inboxList, inboxLoading, inboxFailed,
                   reading, inboxAcked, sessionVars, shellVars>>

(* setReloadKey: also of a page whose last load failed, which comes back.  *)
EntryChanged ==
  \E c \in Asked("entry"), reply \in Replies :
    /\ reply \in Outcomes(c) /\ Deliver(c, reply)
    /\ IF c.here /\ reply = "ok"
       THEN inboxAcked' = inboxWrites /\ LoadInbox(inboxQuery)
       ELSE UNCHANGED <<inboxAcked, inboxLoad, lateInbox>>
    /\ UNCHANGED <<inboxQuery, inboxList, inboxLoading, inboxFailed, reading, inboxWrites,
                   live, shown, check>>

(* The dialog shows the row it was opened for, whatever the list does.     *)
ReadEntry(e) ==
  /\ RowsOfReviews \/ RowsOfMessages
  /\ reading' = e
  /\ UNCHANGED <<inboxQuery, inboxLoad, lateInbox, inboxList, inboxLoading, inboxFailed,
                 inboxWrites, inboxAcked, adminVars>>

ReviewDialog == shown = "reviews" /\ reading # Nothing
MessageDialog == shown = "messages" /\ reading # Nothing

(* The buttons of the dialog and Escape.                                   *)
CloseEntry ==
  /\ ReviewDialog \/ MessageDialog
  /\ reading' = Nothing
  /\ UNCHANGED <<inboxQuery, inboxLoad, lateInbox, inboxList, inboxLoading, inboxFailed,
                 inboxWrites, inboxAcked, adminVars>>

--------------------------------------------------------------------------------

InboxFresh(load) ==
  /\ inboxQuery' = FirstInboxQuery /\ inboxLoad' = load /\ lateInbox' = {}
  /\ inboxList' = Nothing
  /\ inboxLoading' = TRUE /\ inboxFailed' = FALSE /\ reading' = Nothing
  /\ inboxWrites' = 0 /\ inboxAcked' = 0

InboxOpened == InboxFresh(InboxRequest(FirstInboxQuery))
InboxClosed == InboxFresh(Nothing)

InboxInit ==
  /\ inboxQuery = FirstInboxQuery /\ inboxLoad = Nothing /\ lateInbox = {}
  /\ inboxList = Nothing
  /\ inboxLoading = TRUE /\ inboxFailed = FALSE /\ reading = Nothing
  /\ inboxWrites = 0 /\ inboxAcked = 0

InboxAnswers == ServeInbox \/ InboxAnswered \/ LateInboxAnswered \/ ServeEntryChange \/ EntryChanged

InboxNext ==
  \/ FilterInbox \/ TurnInbox \/ CloseEntry
  \/ \E e \in Entries : ModerateReview(e) \/ ChangeMessage(e) \/ ReadEntry(e)
  \/ InboxAnswers
================================================================================
