------------------------------ MODULE AdminPanel ------------------------------
(***************************************************************************)
(* The owner's panel in the browser (App.tsx): what it believes of its     *)
(* session and what it draws, while loads, retries, actions, logins and    *)
(* logouts are answered in any order.  A load replaces the one before it   *)
(* (loadGeneration, bootstrapController); the callbacks of an action keep  *)
(* the session they were started with, whatever the panel holds by then.   *)
(*                                                                         *)
(* Sessions are numbered in the order of their creation; 0 is none.  What  *)
(* the edge answers is decided when it verifies the session                *)
(* (EdgeRequests); here that is one step of the request.                   *)
(***************************************************************************)
EXTENDS Naturals

CONSTANTS Slot,        \* actions of the owner that may be under way together
          MaxLogins,   \* bound: sessions created
          MaxActions,  \* bound: actions
          MaxSetbacks  \* bound: refreshes of the stream, reloads of the page and
                       \* requests that fail though the session is good, together

ASSUME PanelAssumption ==
  {MaxLogins, MaxActions, MaxSetbacks} \subseteq Nat

Token == 1..MaxLogins

VARIABLES
  auth,      \* authState: "checking", "signedout" or "ready"
  token,     \* sessionToken
  storage,   \* localStorage: arbm_admin_session
  drawn,     \* dashboard: the session it was fetched for, or 0
  boot,      \* the load of the present loadGeneration: its session, who waits for it, its answer
  retry,     \* the session of the timer set by a load of the present loadGeneration, or 0
  login,     \* the login screen's request
  action,    \* each action under way: what kind, for which session, how far
  leave,     \* logout() under way for the owner and for each action
  marked,   \* sessions with a revocation marker at the edge
  leaving,   \* sessions whose logout request has not reached the edge
  spent,     \* what has been used of the bounds
  ended,     \* ghost: sessions the edge refused in a request, or the owner asked to leave
  mixed,     \* ghost: whether a session began with callbacks of another pending
  late       \* ghost: whether a load was started during a logout, or for a session the panel no longer held

panelState == <<auth, token, storage, drawn>>
panelCalls == <<boot, retry, login, action, leave>>
panelEdge  == <<marked, leaving>>
panelGhosts == <<ended, mixed, late>>
panelVars == <<panelState, panelCalls, panelEdge, spent, panelGhosts>>

NoCall == [of |-> 0, by |-> "nobody", answer |-> "none"]
Rest   == [of |-> 0, at |-> "rest"]
Who    == {"owner"} \union Slot

\* How often something may happen.
Spend(what, limit) == spent[what] < limit /\ spent' = [spent EXCEPT ![what] = @ + 1]
Unspent == UNCHANGED spent

\* What the edge answers a request of session s.
Answers(s, answer) ==
  \/ answer = (IF s \in marked THEN "unauthorized" ELSE "ok") /\ Unspent
  \/ answer \in {"unauthorized", "failed"} /\ Spend("setbacks", MaxSetbacks)

LoggingOut == \E w \in Who : leave[w] # 0

-----------------------------------------------------------------------------
(***************************************************************************)
(* load(token): the load before it is aborted and its timer made idle;     *)
(* without a session there is none.                                        *)
(***************************************************************************)
LoadFor(s, by, stale) ==
  /\ boot' = IF s = 0 THEN NoCall ELSE [of |-> s, by |-> by, answer |-> "none"]
  /\ retry' = 0
  /\ late' = (late \/ LoggingOut \/ stale)

BootServed ==
  /\ boot # NoCall /\ boot.answer = "none"
  /\ \E answer \in {"ok", "unauthorized", "failed"} :
       /\ Answers(boot.of, answer)
       /\ boot' = [boot EXCEPT !.answer = answer]
       /\ ended' = IF answer = "unauthorized" THEN ended \union {boot.of} ELSE ended
  /\ UNCHANGED <<panelState, retry, login, action, leave, panelEdge,
                 mixed, late>>

\* The data are drawn; when the server had kept them for a minute, they are asked for again.
BootDrawn ==
  /\ boot.answer = "ok"
  /\ drawn' = boot.of /\ auth' = "ready"
  /\ boot' = NoCall
  /\ retry' \in {0, boot.of}
  /\ UNCHANGED <<token, storage, login, action, leave, panelEdge, spent, panelGhosts>>

\* A failure keeps session and data and tries again.
\* Mutant: it is left to the next action.
BootFailedSilently ==
  /\ boot.answer = "failed"
  /\ boot' = NoCall
  /\ UNCHANGED <<panelState, retry, login, action, leave, panelEdge, spent, panelGhosts>>
BootFailed ==
  /\ boot.answer = "failed"
  /\ boot' = NoCall
  /\ retry' = boot.of
  /\ UNCHANGED <<panelState, login, action, leave, panelEdge, spent, panelGhosts>>

\* The session is gone: whatever session the panel holds is dropped.
\* Mutant: any error is taken for the end of the session.
BootErrorDrops ==
  /\ boot.answer \in {"unauthorized", "failed"}
  /\ boot' = NoCall
  /\ storage' = 0 /\ token' = 0 /\ auth' = "signedout"
  /\ UNCHANGED <<drawn, retry, login, action, leave, panelEdge, spent,
                 ended, mixed, late>>
BootRefused ==
  /\ boot.answer = "unauthorized"
  /\ boot' = NoCall
  /\ storage' = 0 /\ token' = 0 /\ auth' = "signedout"
  /\ UNCHANGED <<drawn, retry, login, action, leave, panelEdge, spent,
                 ended, mixed, late>>

RetryFires ==
  /\ retry # 0
  /\ LoadFor(retry, "nobody", retry # token)
  /\ UNCHANGED <<panelState, login, action, leave, panelEdge, spent, ended, mixed>>

\* The commercial stream, its fall back and a tab made visible load with the session held.
Sync ==
  /\ auth = "ready" /\ Spend("setbacks", MaxSetbacks)
  /\ LoadFor(token, "nobody", FALSE)
  /\ auth' = IF token = 0 THEN "signedout" ELSE auth
  /\ UNCHANGED <<token, storage, drawn, login, action, leave, panelEdge,
                 ended, mixed>>

-----------------------------------------------------------------------------
\* The page is opened again: what was pending in it is gone, not what reached the edge.
Reload ==
  /\ Spend("setbacks", MaxSetbacks)
  /\ token' = storage /\ drawn' = 0
  /\ auth' = IF storage = 0 THEN "signedout" ELSE "checking"
  /\ boot' = IF storage = 0 THEN NoCall ELSE [NoCall EXCEPT !.of = storage]
  /\ retry' = 0 /\ login' = "idle"
  /\ action' = [a \in Slot |-> Rest] /\ leave' = [w \in Who |-> 0]
  /\ UNCHANGED <<storage, panelEdge, panelGhosts>>

\* The login screen is drawn unless the panel is ready; its request may outlast it.
SendLogin ==
  /\ auth # "ready" /\ login = "idle"
  /\ login' = "sent"
  /\ UNCHANGED <<panelState, boot, retry, action, leave, panelEdge, spent, panelGhosts>>

Enter ==
  /\ login = "sent" /\ Spend("logins", MaxLogins)
  /\ LET s == spent["logins"] + 1
     IN  /\ storage' = s /\ token' = s /\ auth' = "ready"
         /\ LoadFor(s, "nobody", FALSE)
  /\ login' = "idle"
  /\ mixed' = (mixed \/ LoggingOut \/ \E a \in Slot : action[a].at # "rest")
  /\ UNCHANGED <<drawn, action, leave, panelEdge, ended>>

-----------------------------------------------------------------------------
(***************************************************************************)
(* logout(), with the session of the closure that called it: the load is   *)
(* aborted, the edge told, and only then is the panel cleared - of the     *)
(* session it holds by then.                                               *)
(***************************************************************************)
Clear ==
  /\ storage' = 0 /\ token' = 0 /\ auth' = "signedout" /\ drawn' = 0

StartLeaving(w, s) ==
  /\ boot' = NoCall /\ retry' = 0
  /\ IF s = 0 THEN Clear /\ UNCHANGED <<leave, leaving>>
              ELSE /\ leave' = [leave EXCEPT ![w] = s] /\ leaving' = leaving \union {s}
                   /\ UNCHANGED panelState

\* Mutant: the load under way is left to answer.
LogoutKeepsLoad ==
  /\ auth = "ready" /\ leave["owner"] = 0
  /\ ended' = ended \union {token}
  /\ token # 0
  /\ leave' = [leave EXCEPT !["owner"] = token] /\ leaving' = leaving \union {token}
  /\ UNCHANGED <<panelState, boot, retry, login, action, marked, spent,
                 mixed, late>>
Logout ==
  /\ auth = "ready" /\ leave["owner"] = 0
  /\ ended' = ended \union {token}
  /\ StartLeaving("owner", token)
  /\ UNCHANGED <<login, action, marked, spent, mixed, late>>

\* revokeEdgeSession.
EdgeRevokes(s) ==
  /\ s \in leaving
  /\ leaving' = leaving \ {s}
  /\ \/ marked' = marked \union {s} /\ Unspent
     \/ UNCHANGED marked /\ Spend("setbacks", MaxSetbacks)
  /\ UNCHANGED <<panelState, panelCalls, panelGhosts>>

\* The edge has answered, or not: the local session is cleared all the same.
Left(w) ==
  /\ leave[w] # 0
  /\ (leave[w] \notin leaving /\ Unspent) \/ Spend("setbacks", MaxSetbacks)
  /\ Clear
  /\ leave' = [leave EXCEPT ![w] = 0]
  /\ UNCHANGED <<boot, retry, login, action, panelEdge, ended, mixed, late>>

-----------------------------------------------------------------------------
(***************************************************************************)
(* An action of the owner: a request, then load() - both with the session  *)
(* of the click.  Refused, runGovernance asks the edge about the session   *)
(* and logs out if it is gone; the others show an error.                   *)
(***************************************************************************)
Act(a) ==
  /\ auth = "ready" /\ action[a].at = "rest" /\ Spend("actions", MaxActions)
  /\ action' = [action EXCEPT ![a] = [Rest EXCEPT !.of = token, !.at = "sent"]]
  /\ UNCHANGED <<panelState, boot, retry, login, leave, panelEdge, panelGhosts>>

AfterAnswer(at, answer) ==
  CASE answer = "ok" /\ at = "sent" -> {"done"}
    [] answer = "unauthorized" /\ at = "sent" -> {"ask", "rest"}
    [] answer = "unauthorized" /\ at = "verify" -> {"gone"}
    [] OTHER -> {"rest"}

ActServed(a) ==
  /\ action[a].at \in {"sent", "verify"}
  /\ \E answer \in {"ok", "unauthorized", "failed"} :
       /\ \/ action[a].of # 0 /\ Answers(action[a].of, answer)
          \/ action[a].of = 0 /\ answer = "unauthorized" /\ Unspent
       /\ \E at \in AfterAnswer(action[a].at, answer) :
            action' = [action EXCEPT ![a] = IF at = "rest" THEN Rest ELSE [@ EXCEPT !.at = at]]
       /\ ended' = IF answer = "unauthorized" THEN ended \union {action[a].of} ELSE ended
  /\ UNCHANGED <<panelState, boot, retry, login, leave, panelEdge,
                 mixed, late>>

\* sessionStillValid
ActAsks(a) ==
  /\ action[a].at = "ask"
  /\ action' = [action EXCEPT ![a].at = "verify"]
  /\ UNCHANGED <<panelState, boot, retry, login, leave, panelEdge, spent, panelGhosts>>

ActLoads(a) ==
  /\ action[a].at = "done"
  /\ LoadFor(action[a].of, a, action[a].of # token)
  /\ action' = [action EXCEPT ![a].at = "loading"]
  /\ UNCHANGED <<panelState, login, leave, panelEdge, spent, ended, mixed>>

\* Its load was answered or aborted; the button is enabled again.
ActEnds(a) ==
  /\ action[a].at = "loading" /\ boot.by # a
  /\ action' = [action EXCEPT ![a] = Rest]
  /\ UNCHANGED <<panelState, boot, retry, login, leave, panelEdge, spent, panelGhosts>>

ActLeaves(a) ==
  /\ action[a].at = "gone"
  /\ StartLeaving(a, action[a].of)
  /\ action' = [action EXCEPT ![a] = Rest]
  /\ UNCHANGED <<login, marked, spent, ended, mixed, late>>

-----------------------------------------------------------------------------
\* The page is opened without a session, or with one kept from before.
PanelInit ==
  /\ storage \in {0} \union (Token \intersect {1})
  /\ token = storage /\ drawn = 0
  /\ auth = (IF storage = 0 THEN "signedout" ELSE "checking")
  /\ boot = IF storage = 0 THEN NoCall ELSE [NoCall EXCEPT !.of = storage]
  /\ retry = 0 /\ login = "idle"
  /\ action = [a \in Slot |-> Rest] /\ leave = [w \in Who |-> 0]
  /\ marked = {} /\ leaving = {}
  /\ spent = [what \in {"logins", "actions", "setbacks"} |->
                IF what = "logins" /\ storage = 1 THEN 1 ELSE 0]
  /\ ended = {} /\ mixed = FALSE /\ late = FALSE

Loading  == BootServed \/ BootDrawn \/ BootFailed \/ BootRefused \/ RetryFires
Leaving  == \/ \E s \in Token : EdgeRevokes(s)
            \/ \E w \in Who : Left(w)
Acting(a) == ActServed(a) \/ ActAsks(a) \/ ActLoads(a) \/ ActEnds(a) \/ ActLeaves(a)

PanelNext ==
  \/ Loading \/ Leaving \/ Sync \/ Reload \/ SendLogin \/ Enter \/ Logout
  \/ \E a \in Slot : Acting(a) \/ Act(a)

\* Requests are answered (a fetch fails in the end) and timers fire.
PanelFairness == WF_panelVars(Loading) /\ WF_panelVars(Leaving)
PanelSpec == PanelInit /\ [][PanelNext]_panelVars /\ PanelFairness

-----------------------------------------------------------------------------
(***************************************************************************)
(* Once a logout is over, no answer that was on its way when it began      *)
(* draws the panel again: the panel is ready without a session only if a   *)
(* load was started while the logout was waiting for the edge, or by an    *)
(* action begun in a session the panel no longer held.                     *)
(***************************************************************************)
SignedOutStays == auth = "ready" => token # 0 \/ late

(***************************************************************************)
(* The panel drops a session only when the edge has refused it or the      *)
(* owner has left it, unless callbacks of an older session were pending    *)
(* when it began: those drop whatever session the panel holds.             *)
(***************************************************************************)
SessionKept ==
  [][token # 0 /\ token' = 0 => token \in ended \/ mixed]_panelVars

(***************************************************************************)
(* An owner who is let in sees data or the login screen in the end,        *)
(* whatever fails on the way.                                              *)
(***************************************************************************)
PanelLoads == (auth # "signedout" /\ drawn = 0) ~> (auth = "signedout" \/ drawn # 0)
=============================================================================
