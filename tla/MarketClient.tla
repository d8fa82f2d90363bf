---------------------------- MODULE MarketClient ----------------------------
(***************************************************************************)
(* The browser's market loop (frontend/src/hooks/useLiveMarketData.ts)      *)
(* against the read model.  Each change of the selection, and each refresh, *)
(* aborts the running loop and starts another; a loop reads status, catalog *)
(* and workspace, and then waits in a long poll for the next revision.      *)
(* A loop's step is the answer to what it awaits: between awaits the        *)
(* browser runs nothing else.  The delay that ends every cycle is part of   *)
(* the next cycle's wait for the status.                                    *)
(***************************************************************************)
EXTENDS MarketReadModel

CONSTANTS
    NoKey,         \* nothing selected
    SymbolOf,      \* the market and symbol of a selection, without its expiry
    Expiring       \* selections whose expiry may pass

ASSUME ClientAssumption ==
    /\ NoKey \notin Keys /\ Expiring \subseteq Keys
    /\ Clients \subseteq Nat /\ 1 \in Clients

VARIABLES
    loop,       \* every loop started so far, and those still to come
    current,    \* the loop that is not aborted
    selection,  \* what the caller has selected
    workspace,  \* visibleWorkspace, what the hook returns of the workspace in its state
    expired     \* selections whose expiry has passed

vars == <<serverVars, loop, current, selection, workspace, expired>>

LoopLabels == {"unborn", "status", "catalog", "workspace", "update", "ended"}
NoWorkspace == [key |-> NoKey, order |-> 0, backend |-> 0]

\* learned is the backend whose revision the loop's revision is.
Loops == [pc : LoopLabels, sel : Keys \cup {NoKey}, revision : Nat, learned : Nat,
          aborted : BOOLEAN]
NewLoop(sel) == [pc |-> "status", sel |-> sel, revision |-> 0, learned |-> backend,
                 aborted |-> FALSE]

\* A loop that is not running.
Idle(pc) == [NewLoop(NoKey) EXCEPT !.pc = pc, !.learned = 0]

Init ==
    /\ ServerInit
    /\ selection \in Keys \cup {NoKey}
    /\ current = 1
    /\ loop = [c \in Clients |->
           IF c = 1 THEN NewLoop(selection)
           ELSE Idle("unborn")]
    /\ workspace = NoWorkspace
    /\ expired = {}

-----------------------------------------------------------------------------
(* The caller, the calendar and the network *)

client == <<loop, current, selection, workspace, expired>>

\* The effect of a new selection, or of refresh() with the same one: the loop that runs
\* is aborted, and a workspace of another selection is dropped.  The render with the new
\* selection comes before the effect; in between, what the state holds, and what the old loop
\* may still put there, is not returned (visibleWorkspace).
Select(sel) ==
    /\ current + 1 \in Clients
    /\ current' = current + 1
    /\ selection' = sel
    /\ loop' = [loop EXCEPT ![current] = [Idle(@.pc) EXCEPT !.sel = loop[current].sel,
                                                           !.aborted = TRUE],
                            ![current + 1] = NewLoop(sel)]
    /\ workspace' = IF workspace.key = sel THEN workspace ELSE NoWorkspace
    /\ handler' = [handler EXCEPT ![current] = NoHandler]
    /\ UNCHANGED <<store, backend, mishaps, expired>>

Expire(k) ==
    /\ k \in Expiring \ expired
    /\ mishaps < MaxMishaps
    /\ mishaps' = mishaps + 1
    /\ expired' = expired \cup {k}
    /\ UNCHANGED <<store, backend, handler, loop, current, selection, workspace>>

-----------------------------------------------------------------------------
(* A loop's step: what it does with the answer it awaited *)

Goto(c, pc) == loop' = [loop EXCEPT ![c].pc = pc]
Awaiting(c, pc) == loop[c].pc = pc /\ ~loop[c].aborted

\* An aborted loop ends at its next step, whatever the answer.
Abort(c) ==
    /\ loop[c].aborted
    /\ loop' = [loop EXCEPT ![c] = Idle("ended")]
    /\ UNCHANGED <<serverVars, current, selection, workspace, expired>>

\* Math.max(revision, answer): the loop's revision never goes back.
Learned(l, n) ==
    IF n > l.revision THEN [l EXCEPT !.revision = n, !.learned = backend] ELSE l

StatusRead(c) ==
    /\ Awaiting(c, "status")
    /\ loop' = [loop EXCEPT ![c] = [Learned(@, revision) EXCEPT !.pc = "catalog"]]
    /\ UNCHANGED <<serverVars, current, selection, workspace, expired>>

\* /markets lists the publications that have not expired.
Listed == {k \in Keys : IsPublished(k) /\ k \notin expired}

\* Bug: any other listed expiry of the symbol counts.
IsReplacedByAny(k) == \E j \in Listed : j # k /\ SymbolOf[j] = SymbolOf[k]

IsReplaced(k) == k \notin Listed /\ \E j \in Listed : SymbolOf[j] = SymbolOf[k]

\* waitForMarketUpdates, after the loop's revision.
Request(c) ==
    /\ Goto(c, "update")
    /\ handler' = [handler EXCEPT ![c] = Asked(loop[c].revision)]
    /\ UNCHANGED <<store, backend, mishaps>>

\* Without a selection the catalog is all there is to show.
CatalogOnly(c) ==
    /\ Awaiting(c, "catalog") /\ loop[c].sel = NoKey
    /\ workspace' = NoWorkspace
    /\ IF Listed = {} THEN Goto(c, "status") /\ UNCHANGED serverVars
                      ELSE Request(c)
    /\ UNCHANGED <<current, selection, expired>>

\* A selection whose symbol is listed with other expiries only is not asked for.
CatalogRead(c) ==
    /\ Awaiting(c, "catalog") /\ loop[c].sel # NoKey
    /\ Goto(c, IF IsReplaced(loop[c].sel) THEN "status" ELSE "workspace")
    /\ UNCHANGED <<serverVars, current, selection, workspace, expired>>

\* Bug: the workspace is shown before the loop looks whether it is aborted.
WorkspaceReadAborted(c) ==
    /\ loop[c].pc = "workspace" /\ IsPublished(loop[c].sel)
    /\ workspace' = [key |-> loop[c].sel, order |-> latest[loop[c].sel].order,
                     backend |-> backend]
    /\ IF loop[c].aborted THEN loop' = [loop EXCEPT ![c] = Idle("ended")]
                               /\ UNCHANGED serverVars
                          ELSE Request(c)
    /\ UNCHANGED <<current, selection, expired>>

WorkspaceRead(c) ==
    /\ Awaiting(c, "workspace") /\ IsPublished(loop[c].sel)
    /\ workspace' = [key |-> loop[c].sel, order |-> latest[loop[c].sel].order,
                     backend |-> backend]
    /\ Request(c)
    /\ UNCHANGED <<current, selection, expired>>

\* 404: the selection is still being acquired.
WorkspacePending(c) ==
    /\ Awaiting(c, "workspace") /\ ~IsPublished(loop[c].sel)
    /\ Goto(c, "status")
    /\ UNCHANGED <<serverVars, current, selection, workspace, expired>>

\* Bug: the loop goes back to the long poll without reading anything.
UpdateReadOnly(c) ==
    /\ Awaiting(c, "update") /\ handler[c].pc = "replied"
    /\ loop' = [loop EXCEPT ![c] = Learned(@, handler[c].revision)]
    /\ handler' = [handler EXCEPT ![c] = Asked(loop'[c].revision)]
    /\ UNCHANGED <<store, backend, mishaps, current, selection, workspace, expired>>

\* The answer of the long poll; reset_required is not looked at.
UpdateRead(c) ==
    /\ Awaiting(c, "update") /\ handler[c].pc = "replied"
    /\ loop' = [loop EXCEPT ![c] = [Learned(@, handler[c].revision) EXCEPT !.pc = "status"]]
    /\ handler' = [handler EXCEPT ![c] = NoHandler]
    /\ UNCHANGED <<store, backend, mishaps, current, selection, workspace, expired>>

\* The backend went away with the request.
UpdateLost(c) ==
    /\ Awaiting(c, "update") /\ handler[c].pc = "dead"
    /\ Goto(c, "status")
    /\ handler' = [handler EXCEPT ![c] = NoHandler]
    /\ UNCHANGED <<store, backend, mishaps, current, selection, workspace, expired>>

\* A request times out, is refused or brings nothing of use: the workspace stays, marked
\* stale, and the loop tries again.
RequestFails(c) ==
    /\ mishaps < MaxMishaps
    /\ \E pc \in {"status", "catalog", "workspace", "update"} : Awaiting(c, pc)
    /\ mishaps' = mishaps + 1
    /\ Goto(c, "status")
    /\ handler' = [handler EXCEPT ![c] = NoHandler]
    /\ UNCHANGED <<store, backend, current, selection, workspace, expired>>

\* A status that reports missing credentials tells the revision too.
ConfigRequired(c) ==
    /\ mishaps < MaxMishaps
    /\ Awaiting(c, "status")
    /\ mishaps' = mishaps + 1
    /\ loop' = [loop EXCEPT ![c] = [Learned(@, revision) EXCEPT !.pc = "status"]]
    /\ UNCHANGED <<store, backend, handler, current, selection, workspace, expired>>

Advance(c) ==
    \/ Abort(c) \/ StatusRead(c) \/ CatalogOnly(c) \/ CatalogRead(c)
    \/ WorkspaceRead(c) \/ WorkspacePending(c)
    \/ UpdateRead(c) \/ UpdateLost(c)

Next ==
    \/ ServerNext /\ UNCHANGED client
    \/ \E sel \in Keys \cup {NoKey} : Select(sel)
    \/ \E k \in Keys : Expire(k)
    \/ \E c \in Clients : Advance(c) \/ RequestFails(c) \/ ConfigRequired(c)

Spec == Init /\ [][Next]_vars

\* The loop that is not aborted and the request thread that serves it go on, to the
\* timeout of a wait if nothing ends it sooner.  Nothing obliges anyone to publish, to
\* select or to fail.
FairSpec ==
    /\ Spec
    /\ WF_vars(Serve(current) /\ UNCHANGED client)
    /\ WF_vars(Advance(current))

-----------------------------------------------------------------------------
(* Properties *)

\* Only the current loop has a request open or takes answers, for its own selection.
OneLoop ==
    /\ \A c \in Clients \ {current} :
          /\ loop[c].pc \in {"unborn", "ended"} \/ loop[c].aborted
          /\ handler[c] = NoHandler
    /\ loop[current].sel = selection

\* Every variable keeps its type, and the loops never overlap (the state and the abort
\* controllers of useLiveMarketData).
TypeOK ==
    /\ StoreTypeOK
    /\ OneLoop
    /\ loop \in [Clients -> Loops]
    /\ current \in Clients
    /\ selection \in Keys \cup {NoKey}
    /\ workspace \in [key : Keys \cup {NoKey}, order : Nat, backend : Nat]
    /\ expired \subseteq Keys

Shown(k) == [key |-> k, order |-> latest[k].order, backend |-> backend]
Blocked(c) ==
    /\ Awaiting(c, "update") /\ loop[c].sel # NoKey
    /\ handler[c].pc = "waiting" /\ ~handler[c].notified

\* A loop whose long poll blocks shows the newest publication of its selection: the
\* revision it waits on was read before the workspace (runMarketLoop), provided it
\* learned that revision from the backend it is waiting on.
NothingMissed ==
    \A c \in Clients : Blocked(c) /\ loop[c].learned = backend =>
        workspace = Shown(loop[c].sel)

\* The hook never returns a workspace of anything but the selection, however late the
\* answers of aborted loops come (useLiveMarketData's effect, loop and visibleWorkspace).
DisplayedIsSelected == workspace.key \in {selection, NoKey}

\* A publication of the selection is in the end displayed, it or a newer one, unless
\* the selection, the backend or the expiry passes first.
DisplayCatchesUp ==
    \A k \in Keys, n \in 1 .. MaxOrder, b \in 0 .. MaxMishaps :
        (selection = k /\ backend = b /\ latest[k].order = n)
            ~> \/ workspace.key = k /\ workspace.backend = b /\ workspace.order >= n
               \/ selection # k \/ backend # b \/ k \in expired
=============================================================================
