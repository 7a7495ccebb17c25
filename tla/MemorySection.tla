---------------------------- MODULE MemorySection ----------------------------
(***************************************************************************)
(* The Memory section of the settings page and the remote service behind   *)
(* it: src/client/memory-section-store.ts, the inline editor of            *)
(* src/client/MemorySection.tsx and src/remote/index.ts, over a store      *)
(* that agents change meanwhile.                                           *)
(*                                                                         *)
(* Every request is served at some moment and its reply handled at a later *)
(* one, in any order.  A request that fetches a first batch or the next    *)
(* one takes a ticket, and its reply is dropped when a later ticket was    *)
(* given out.                                                              *)
(***************************************************************************)
EXTENDS AgentTools

CONSTANTS
  PageSize,   \* MEMORY_BATCH_SIZE
  ClickCost   \* bound: what one click costs

ASSUME SectionAssumption == PageSize \in Nat \ {0} /\ ClickCost \in Nat

VARIABLES
  page,      \* the snapshot the page renders, with the cached match set
  seq,       \* the last ticket
  requests   \* requests in flight

section == <<page, seq, requests>>
vars == <<store, tools, section>>

(* rows: [id, body, pinned] as the host answered.  matches: the full match *)
(* set of the last search that answered, or Absent.  History, for the      *)
(* properties: seen, the listing the rows were read from; mixed, they were *)
(* read from several, or under filters that are not the page's; reopened,  *)
(* a load took the ticket of an append in flight.                          *)
BlankPage == [status |-> "loading", error |-> FALSE, rows |-> <<>>, total |-> 0, more |-> FALSE,
              scope |-> "all", query |-> FALSE, pending |-> {}, matches |-> Absent,
              seen |-> Absent, mixed |-> FALSE, reopened |-> FALSE]

-----------------------------------------------------------------------------
(* The remote service.                                                     *)

\* What tells two listings apart.
Listing == [i \in Ids |-> IF entries[i] = Absent THEN <<>>
                          ELSE <<Redacted(entries[i].body), entries[i].superseded,
                                entries[i].pinned>>]

\* toEntryJson
Json(i) == [id |-> i, body |-> Redacted(entries[i].body), pinned |-> entries[i].pinned]

\* list, newest first, and search, which leaves superseded entries out, over
\* the entries of a scope.
Listed(scope, query) ==
  LET of == IF scope = "all" THEN Held ELSE Held \cap Project
      ids == NewestFirst(IF query THEN of \cap Found ELSE of)
  IN  [n \in DOMAIN ids |-> Json(ids[n])]

Reply(ok, rs, total, queued) ==
  [ok |-> ok, rows |-> rs, total |-> total, queued |-> queued, seen |-> Listing]

NoReply == [ok |-> FALSE, rows |-> <<>>, total |-> 0, queued |-> {}, seen |-> Absent]

Outcome(ok) == Reply(ok, <<>>, 0, {})

Proposals == {queue[n].id : n \in DOMAIN queue}

Served(r, reply) ==
  /\ requests' = (requests \ {r}) \cup {[r EXCEPT !.served = TRUE, !.reply = reply]}
  /\ UNCHANGED <<page, seq>>

\* list and search read; the search asks for everything at once.
ServeBatch(r) ==
  /\ r.kind \in {"load", "reload", "more"}
  /\ LET all == Listed(r.scope, r.query)
     IN  Served(r, Reply(TRUE, IF r.query THEN all ELSE Page(all, r.arg, PageSize), Len(all), {}))
  /\ UNCHANGED <<store, tools>>

\* health, projects, suggestList: for a load, what it asks for besides its batch.
ServeQueue(r) ==
  /\ r.kind \in {"queue", "pending", "health"}
  /\ Served(r, Reply(TRUE, <<>>, 0, Proposals))
  /\ UNCHANGED <<store, tools>>

\* getRaw: the read is recorded.
ServeRaw(r) ==
  /\ r.kind = "raw"
  /\ IF r.arg \in Held THEN ReadRaw(r.arg) /\ UNCHANGED events ELSE UNCHANGED store
  /\ requests' = requests \ {r}
  /\ UNCHANGED <<page, seq, tools>>

\* update, removeEntry, pin: found and written, or refused.  A pin carries the
\* value it asks for.
ServeWrite(r) ==
  /\ r.kind \in {"save", "delete", "pin", "unpin"}
  /\ \E ok \in BOOLEAN :
       /\ \/ r.kind = "save" /\ Update(r.arg, r.body, ok)
          \/ r.kind = "delete" /\ RemoveEntry(r.arg, ok)
          \/ r.kind = "pin" /\ SetPinned(r.arg, TRUE, ok)
          \/ r.kind = "unpin" /\ SetPinned(r.arg, FALSE, ok)
       /\ Served(r, Outcome(ok))
  /\ Unpinned /\ UNCHANGED <<forgetting, events>>

\* The entry is gone or the text is refused; archive is never served by this
\* store, nor is an entry's proposal ever decided.
RefuseWrite(r) ==
  /\ \/ r.kind \in {"save", "delete", "pin", "unpin"} /\ r.arg \notin Held
     \/ r.kind = "save" /\ ~Allowed(r.body)
     \/ r.kind = "archive"
     \/ r.kind \in {"adopt", "reject"}
        /\ ~\E n \in DOMAIN queue : queue[n].id = r.arg /\ queue[n].subject = Soul
  /\ Served(r, Outcome(FALSE))
  /\ UNCHANGED <<store, tools>>

\* suggestAdopt: the reply follows the drop of the row.
ServeAdopt(r) ==
  /\ r.kind = "adopt" /\ r.arg \notin adopting
  /\ AdoptWrite(r.arg)
  /\ UNCHANGED <<events, tools, section>>

ServeAdopted(r) ==
  /\ r.kind = "adopt" /\ r.arg \in adopting
  /\ \E ok \in BOOLEAN : AdoptDrop(r.arg, ok) /\ Served(r, Outcome(ok))
  /\ UNCHANGED <<events, tools>>

ServeReject(r) ==
  /\ r.kind = "reject"
  /\ Reject(r.arg) /\ Served(r, Outcome(TRUE))
  /\ UNCHANGED <<events, tools>>

\* A request or its reply is lost, or the handler threw.
Fail(r) ==
  /\ Fault
  /\ Served(r, NoReply)
  /\ UNCHANGED <<tables, auditSeq, adopting, minted, rows, events, crashes, ledger, tools>>

-----------------------------------------------------------------------------
(* The controller.                                                         *)

Clicked == events + ClickCost <= MaxEvents /\ events' = events + ClickCost

Request(kind, ticket, p, arg, body) ==
  [kind |-> kind, ticket |-> ticket, scope |-> p.scope, query |-> p.query, arg |-> arg,
   body |-> body, served |-> FALSE, reply |-> NoReply, batch |-> NoReply]

\* fetchFirstBatch: plain browsing drops the cached matches at once.
Fetched(p) == [p EXCEPT !.matches = IF p.query THEN @ ELSE Absent]

\* reload, under the filters of p.
StartReload(p, others) ==
  /\ seq' = seq + 1
  /\ page' = Fetched(p)
  /\ requests' = others \cup {Request("reload", seq', p, 0, "plain")}

\* load: opening the section, a retry, a reconnection.
Load ==
  /\ Clicked
  /\ seq' = seq + 1
  /\ page' = [Fetched(page) EXCEPT !.reopened = page.more]
  /\ requests' = requests \cup {Request("load", seq', page, 0, "plain")}
  /\ UNCHANGED <<tables, auditSeq, adopting, minted, rows, faults, crashes, ledger,
                 tools>>

Idle == <<tables, auditSeq, adopting, minted, rows, faults, crashes, ledger, tools>>

\* setScope, setProject, and commitQuery, toggleCategory
SetFilters ==
  /\ Clicked
  /\ \/ StartReload([page EXCEPT !.scope = IF @ = "all" THEN "project" ELSE "all"], requests)
     \/ StartReload([page EXCEPT !.query = ~@], requests)
  /\ UNCHANGED Idle

\* A batch that is on its way when the ticket is taken is never painted.
Overtakes == \E r \in requests : r.kind \in {"load", "queue", "reload"} /\ r.ticket = seq

\* loadMore: asks for the rows after the ones shown, or reveals cached ones.
LoadMore ==
  /\ Clicked
  /\ page.status = "ready" /\ ~page.more /\ Len(page.rows) < page.total
  /\ IF ~page.query
     THEN /\ seq' = seq + 1
          /\ page' = [page EXCEPT !.more = TRUE, !.reopened = FALSE, !.mixed = @ \/ Overtakes]
          /\ requests' = requests \cup {Request("more", seq', page, Len(page.rows), "plain")}
     ELSE IF page.matches = Absent THEN StartReload(page, requests)
     ELSE /\ page' = [page EXCEPT !.rows = Page(page.matches, 0, Len(page.rows) + PageSize)]
          /\ UNCHANGED <<seq, requests>>
  /\ UNCHANGED Idle

\* Mutant: the ticket is not looked at.
AnyTicket(r) == TRUE

Newest(r) == r.ticket = seq

\* A search that answers caches its matches, whatever its ticket.
Cached(r) ==
  [page EXCEPT !.matches = IF r.query THEN r.reply.rows ELSE @,
               !.mixed = @ \/ (r.query /\ r.ticket # seq)]

Painted(p, batch, shown) ==
  [p EXCEPT !.status = "ready", !.error = FALSE, !.rows = shown, !.total = batch.total,
            !.seen = batch.seen, !.mixed = FALSE]

First(batch) == Page(batch.rows, 0, PageSize)

\* load, its batch answered: the matches are cached at once, and the page is
\* painted when the rest of what it asks for has been answered.
LoadAnswered(r) ==
  /\ r.kind = "load" /\ r.served
  /\ IF r.reply.ok
     THEN /\ page' = Cached(r)
          /\ requests' = (requests \ {r})
               \cup {[r EXCEPT !.kind = "queue", !.served = FALSE, !.batch = r.reply,
                               !.reply = NoReply]}
     ELSE /\ page' = IF Newest(r) THEN [page EXCEPT !.status = "error", !.error = TRUE] ELSE page
          /\ requests' = requests \ {r}
  /\ UNCHANGED seq

\* A queue that cannot be read counts as empty; health or projects that cannot
\* be read fail the load.
QueueAnswered(r) ==
  /\ r.kind = "queue" /\ r.served
  /\ \/ page' = IF Newest(r)
                THEN [Painted(page, r.batch, First(r.batch)) EXCEPT
                        !.pending = r.reply.queued, !.mixed = page.query /\ page.mixed]
                ELSE page
     \/ /\ ~r.reply.ok
        /\ page' = IF Newest(r) THEN [page EXCEPT !.status = "error", !.error = TRUE] ELSE page
  /\ requests' = requests \ {r}
  /\ UNCHANGED seq

\* Mutant: the append that the reload has overtaken is not written off.
StillMore(p) == p

NoMore(p) == [p EXCEPT !.more = FALSE]

ReloadAnswered(r) ==
  /\ r.kind = "reload" /\ r.served
  /\ page' = IF ~r.reply.ok THEN IF Newest(r) THEN NoMore([page EXCEPT !.error = TRUE]) ELSE page
             ELSE IF Newest(r) THEN NoMore(Painted(Cached(r), r.reply, First(r.reply)))
             ELSE Cached(r)
  /\ requests' = requests \ {r}
  /\ UNCHANGED seq

\* Rows that are shown already are left out.
Appended(batch) ==
  LET new == {n \in DOMAIN batch : \A m \in DOMAIN page.rows : page.rows[m].id # batch[n].id}
  IN  page.rows \o [k \in 1..Cardinality(new) |-> batch[InOrder(new, <)[k]]]

MoreAnswered(r) ==
  /\ r.kind = "more" /\ r.served
  /\ requests' = requests \ {r}
  /\ page' = IF ~Newest(r) THEN page
             ELSE IF ~r.reply.ok THEN [page EXCEPT !.error = TRUE, !.more = FALSE]
             ELSE [page EXCEPT !.rows = Appended(r.reply.rows), !.total = r.reply.total,
                               !.more = FALSE, !.mixed = @ \/ r.reply.seen # page.seen]
  /\ UNCHANGED seq

Acting == {"save", "delete", "pin", "unpin", "archive", "adopt", "reject"}

\* An action of a row or a proposal; one at a time here.
Busy == \E r \in requests : r.kind \in Acting \cup {"health"}

Act(kind, arg, body) ==
  /\ Clicked /\ ~Busy
  /\ requests' = requests \cup {Request(kind, 0, page, arg, body)}
  /\ UNCHANGED <<Idle, page, seq>>

\* The pin asks for the opposite of what the row showed.
ActOnRow ==
  \E n \in DOMAIN page.rows :
    \E kind \in {"delete", "archive", IF page.rows[n].pinned THEN "unpin" ELSE "pin"} :
      Act(kind, page.rows[n].id, "plain")

Decide ==
  /\ \E id \in page.pending, kind \in {"adopt", "reject"} : Act(kind, id, "plain")

\* act: a decided proposal leaves the page, an adoption repaints the list; the
\* other actions refresh the queue, and the list once the health answered.
ActAnswered(r) ==
  /\ r.kind \in Acting /\ r.served
  /\ LET others == requests \ {r}
         decided == [page EXCEPT !.pending = @ \ {r.arg}]
     IN  CASE ~r.reply.ok -> requests' = others /\ UNCHANGED <<page, seq>>
           [] r.reply.ok /\ r.kind = "adopt" -> StartReload(decided, others)
           [] r.reply.ok /\ r.kind = "reject" -> /\ page' = decided /\ requests' = others
                                                 /\ UNCHANGED seq
           [] OTHER -> /\ requests' = others \cup {Request("pending", 0, page, 0, "plain"),
                                                   Request("health", 0, page, 0, "plain")}
                       /\ UNCHANGED <<page, seq>>

\* refreshPending: without a ticket.
PendingAnswered(r) ==
  /\ r.kind = "pending" /\ r.served
  /\ requests' = requests \ {r}
  /\ page' = IF r.reply.ok THEN [page EXCEPT !.pending = r.reply.queued] ELSE page
  /\ UNCHANGED seq

HealthAnswered(r) ==
  /\ r.kind = "health" /\ r.served
  /\ StartReload(page, requests \ {r})

\* The inline editor asks for the raw text when it opens ...
Edit ==
  /\ Clicked
  /\ \E n \in DOMAIN page.rows :
       requests' = requests \cup {Request("raw", 0, page, page.rows[n].id, "plain")}
  /\ UNCHANGED <<Idle, page, seq>>

\* ... and Save sends its whole draft: the text the row showed, the raw text if
\* that came in time, or what the user typed.
Drafts(row) ==
  {row.body, "edited"} \cup IF entries[row.id] = Absent THEN {} ELSE {entries[row.id].body}

Save ==
  \E n \in DOMAIN page.rows : \E body \in Drafts(page.rows[n]) :
    Act("save", page.rows[n].id, body)

Serve == \E r \in requests :
  /\ ~r.served
  /\ \/ ServeBatch(r) \/ ServeQueue(r) \/ ServeRaw(r) \/ ServeWrite(r) \/ RefuseWrite(r)
     \/ ServeAdopt(r) \/ ServeAdopted(r) \/ ServeReject(r) \/ Fail(r)

Answer == \E r \in requests :
  /\ \/ LoadAnswered(r) \/ QueueAnswered(r) \/ ReloadAnswered(r) \/ MoreAnswered(r)
     \/ ActAnswered(r) \/ PendingAnswered(r) \/ HealthAnswered(r)
  /\ UNCHANGED <<store, tools>>

User == Load \/ SetFilters \/ LoadMore \/ ActOnRow \/ Decide \/ Edit \/ Save

\* The process of the host dies: what it was doing fails, the page stays.
Restart ==
  /\ Reopen
  /\ forgetting' = {} /\ pinnedSince' = {}
  /\ requests' = {IF r.served THEN r ELSE [r EXCEPT !.served = TRUE] : r \in requests}
  /\ UNCHANGED <<page, seq>>

Init ==
  /\ ToolsInit
  /\ page = BlankPage
  /\ seq = 1
  /\ requests = {Request("load", 1, BlankPage, 0, "plain")}

Next ==
  \/ ToolCall /\ UNCHANGED section
  \/ User \/ Serve \/ Answer \/ Restart

Spec == Init /\ [][Next]_vars

\* Requests are served or fail, and replies are handled.
FairSpec == Spec /\ WF_vars(Serve) /\ WF_vars(Answer)

-----------------------------------------------------------------------------
(* Properties.                                                             *)

Truth == Listed(page.scope, page.query)

\* A page that waits for nothing and reports no error shows the newest entries
\* of the store under its own filters, with the exact total, in whatever order
\* the replies came: unless the store was written since it was read, or the
\* rows were mixed (an append that took the ticket of a first batch, an older
\* search that answered last).
QuietPageIsTrue ==
  requests = {} /\ page.status = "ready" /\ ~page.error /\ ~page.mixed /\ page.seen = Listing
    => page.total = Len(Truth) /\ page.rows = Page(Truth, 0, Len(page.rows))

\* The button that appends the next batch comes back, unless the whole section
\* was loaded again meanwhile.
LoadingMoreEnds == page.more ~> ~page.more \/ page.reopened

=============================================================================
