-------------------------------- MODULE Gate --------------------------------
(***************************************************************************)
(* The gate in front of everything that leaves the machine: a connected    *)
(* app's tools (agent/connector_gate.rs, agent/app_calls.rs), mail         *)
(* (agent/mail.rs), the question a person answers in the permission panel  *)
(* (permissions/mod.rs) and the inbox where a call that nobody could be    *)
(* asked about waits for a yes (commands/memory.rs).                       *)
(*                                                                         *)
(* A call of a batch of app tools is planned (each tool read, change or    *)
(* send; per app the strictest kind and the number of sends), weighed      *)
(* against the apps' policies and the day's count, and then runs, is       *)
(* refused, is asked about, or is left in the inbox.  The database is      *)
(* locked per statement, so what a call read while it was weighed may be   *)
(* old when it counts its sends or saves an "always".                      *)
(*                                                                         *)
(* One day is modelled.  The servers and the mail host are external: a     *)
(* call to them succeeds or fails.                                         *)
(***************************************************************************)
EXTENDS Integers, FiniteSets, Functions

CONSTANTS
    Apps,          \* the apps policies are kept for
    Tools,         \* the app tools a batch may name
    AppOf,         \* [Tools -> Apps]
    Plain,         \* the apps that are connectors of their own, not reached through Composio
    AutoKind,      \* [Tools -> Kinds]: what classify makes of a tool's name and hints
    Batches,       \* the sets of tools one call may run
    Calls,         \* the gated calls of all runs, and the mails
    Accepts,       \* the accept commands that may be under way together
    DefaultCap,    \* DEFAULT_SEND_CAP
    MaxCap,        \* MAX_SEND_CAP
    Settings,      \* what the person may choose in an app's settings
    MaxEdits,      \* bound: changes of settings
    MaxClicks      \* bound: clicks on an inbox card

Kinds == {"read", "change", "send"}
Rungs == {"off", "ask", "auto"}
Policies == [read : {"run", "ask"}, change : {"ask", "allow"}, send : {"ask", "allow"},
             cap : 1..MaxCap, kind : [Tools -> Kinds \cup {"none"}]]

ASSUME GateAssumption ==
    /\ IsFiniteSet(Tools)
    /\ AppOf \in [Tools -> Apps]
    /\ AutoKind \in [Tools -> Kinds]
    /\ Plain \subseteq Apps
    /\ Batches \subseteq (SUBSET Tools) \ {{}}
    /\ \A batch \in Batches : (\E t \in batch : AppOf[t] \in Plain) => Cardinality(batch) = 1
    /\ MaxCap \in Nat \ {0}
    /\ DefaultCap \in 1..MaxCap
    /\ Settings \subseteq [read : {"run", "ask"}, change : {"ask", "allow"},
                          send : {"ask", "allow"}, cap : Int]
    /\ MaxEdits \in Nat
    /\ MaxClicks \in Nat

VARIABLES
    policy,     \* connector_policy: [Apps -> Policies]
    rung,       \* the autonomy settings app_send and email_send
    sent,       \* app_send_log of the day: [Apps -> Nat]
    call,       \* the calls: how far each one is and what it holds
    pending,    \* PermissionManager.pending: the calls with an open question
    answer,     \* what came through a call's channel
    stopped,    \* the calls whose run the person stopped
    prop,       \* change_proposals: the parked calls and mails
    acc,        \* resolve_change_proposal_cmd, accepting, under way
    edits, clicks,
    ran,        \* history: how often the outside carried a call out
    left,       \* history: sends that left through an app
    quiet,      \* history: sends counted without a question, by a call that had
                \* seen the count it then raised
    top,        \* history: the highest cap an app has had
    told,       \* history: the policy as the person last put it
    blurred,    \* history: apps whose settings moved under an open question
    refused     \* history: calls the person said no to

perms  == <<pending, answer, stopped>>
inbox  == <<prop, acc, clicks>>
person == <<policy, rung, edits, told, blurred, top>>
ledger == <<sent, left, quiet>>
vars == <<call, perms, inbox, person, ledger, ran, refused>>

None == "none"
Defaults == [read |-> "run", change |-> "ask", send |-> "ask", cap |-> DefaultCap,
             kind |-> [t \in Tools |-> None]]

Rank == [read |-> 1, change |-> 2, send |-> 3]
Strictest(ks) == CHOOSE k \in ks : \A j \in ks : Rank[k] >= Rank[j]

\* effective_kind: the person's correction, kept with the app, before the name.
EffectiveKind(t) ==
    LET k == policy[AppOf[t]].kind[t] IN IF k = None THEN AutoKind[t] ELSE k

\* parts_of: per app of a batch the strictest kind and how many targets send.
\* raised are the targets a quick decision took for sends.
PartsOf(batch, raised) ==
    LET Kind(t) == IF t \in raised THEN "send" ELSE EffectiveKind(t)
        Of(a)   == {t \in batch : AppOf[t] = a}
    IN  [a \in {AppOf[t] : t \in batch} |->
            [kind  |-> Strictest({Kind(t) : t \in Of(a)}),
             sends |-> Cardinality({t \in Of(a) : Kind(t) = "send"})]]

NoParts == [a \in {} |-> a]
KindOf(parts) == Strictest({parts[a].kind : a \in DOMAIN parts})
SendsOf(parts, a) == IF a \in DOMAIN parts THEN parts[a].sends ELSE 0

Idle == [pc |-> "idle", batch |-> {}, parts |-> NoParts, held |-> NoParts, seen |-> NoParts,
         headless |-> FALSE, added |-> FALSE, quiet |-> FALSE]
Ended == [Idle EXCEPT !.pc = "end"]
NoProp == [status |-> "none", target |-> None, batch |-> {}, kind |-> None]
FreeAcc == [pc |-> "free", of |-> None, sends |-> NoParts]

Init ==
    /\ policy = [a \in Apps |-> Defaults]
    /\ rung = [app_send |-> "ask", email_send |-> "ask"]
    /\ sent = [a \in Apps |-> 0]
    /\ call = [c \in Calls |-> Idle]
    /\ pending = {} /\ answer = [c \in Calls |-> None] /\ stopped = {}
    /\ prop = [c \in Calls |-> NoProp]
    /\ acc = [k \in Accepts |-> FreeAcc]
    /\ edits = 0 /\ clicks = 0
    /\ ran = [c \in Calls |-> 0]
    /\ left = [a \in Apps |-> 0]
    /\ quiet = [a \in Apps |-> 0] /\ top = [a \in Apps |-> DefaultCap]
    /\ told = [a \in Apps |-> Defaults] /\ blurred = {}
    /\ refused = {}

-----------------------------------------------------------------------------
(* The gate.                                                               *)

\* look_at_batch looks at neither a send nor a tool whose kind the person set.
MayRaise(batch) == {t \in batch : EffectiveKind(t) # "send" /\ policy[AppOf[t]].kind[t] = None}

\* plan and relay_composio up to admit, and the same for the one tool of a plain
\* connector.  A quick decision may take a target for a send, unless the person
\* has set its kind, and may find a read that nobody asked for.  A run that
\* plans first may only read.
Plan(c) ==
    /\ call[c].pc = "idle"
    /\ \E batch \in Batches, headless, added, planFirst \in BOOLEAN :
       \E raised \in SUBSET MayRaise(batch) :
          LET parts == PartsOf(batch, raised) IN
          call' = [call EXCEPT ![c] =
              IF planFirst /\ KindOf(parts) # "read" THEN Ended
              ELSE [Idle EXCEPT !.pc = "weigh", !.batch = batch, !.parts = parts, !.headless = headless,
                                !.added = (added /\ KindOf(parts) = "read")]]
    /\ UNCHANGED <<perms, inbox, person, ledger, ran, refused>>

\* Mutant: a call is let through while the day's count is at the cap, not past it.
AllowedPastCap(c, a) ==
    LET part == call[c].parts[a] IN
    \/ part.kind = "read" /\ policy[a].read # "ask" /\ ~call[c].added
    \/ part.kind = "change" /\ policy[a].change = "allow"
    \/ /\ part.kind = "send"
       /\ policy[a].send = "allow" \/ rung.app_send = "auto"
       /\ sent[a] <= policy[a].cap

\* The loop over the groups in admit.
Allowed(c, a) ==
    LET part == call[c].parts[a] IN
    \/ part.kind = "read" /\ policy[a].read # "ask" /\ ~call[c].added
    \/ part.kind = "change" /\ policy[a].change = "allow"
    \/ /\ part.kind = "send"
       /\ policy[a].send = "allow" \/ rung.app_send = "auto"
       /\ sent[a] + part.sends <= policy[a].cap

SendsOff(c) ==
    rung.app_send = "off" /\ \E a \in DOMAIN call[c].parts : call[c].parts[a].kind = "send"

\* admit: the policies and the day's count are read, and the call goes on, is
\* refused, is left in the inbox (leave_for_approval) or is asked about
\* (open_request).
WeighRefused(c) ==
    /\ call[c].pc = "weigh" /\ SendsOff(c)
    /\ call' = [call EXCEPT ![c] = Ended]
    /\ refused' = refused \cup {c}
    /\ UNCHANGED <<perms, inbox, person, ledger, ran>>

AllAllowed(c) == \A a \in DOMAIN call[c].parts : Allowed(c, a)

WeighAllowed(c) ==
    /\ call[c].pc = "weigh" /\ ~SendsOff(c) /\ AllAllowed(c)
    /\ LET parts == call[c].parts IN
       call' = [call EXCEPT ![c] = [Idle EXCEPT !.pc = "count", !.parts = parts, !.quiet = TRUE,
                                                !.seen = Restrict(sent, DOMAIN parts)]]
    /\ UNCHANGED <<perms, inbox, person, ledger, ran, refused>>

LeaveForApproval(c) ==
    /\ call[c].pc = "weigh" /\ ~SendsOff(c) /\ ~AllAllowed(c) /\ call[c].headless
    /\ prop' = [prop EXCEPT ![c] = [status |-> "pending", target |-> "app", batch |-> call[c].batch,
                                    kind |-> KindOf(call[c].parts)]]
    /\ call' = [call EXCEPT ![c] = Ended]
    /\ UNCHANGED <<acc, clicks, perms, person, ledger, ran, refused>>

OpenRequest(c) ==
    /\ call[c].pc = "weigh" /\ ~SendsOff(c) /\ ~AllAllowed(c) /\ ~call[c].headless
    /\ pending' = pending \cup {c}
    /\ LET parts == call[c].parts IN
       call' = [call EXCEPT ![c] = [Idle EXCEPT !.pc = "asked", !.parts = parts,
                                                !.held = Restrict(policy, DOMAIN parts)]]
    /\ UNCHANGED <<answer, stopped, inbox, person, ledger, ran, refused>>

\* PermissionManager::resolve: the sender is taken out of the map; a call that
\* no longer waits gets nothing.
Resolve(c, d) ==
    /\ c \in pending
    /\ pending' = pending \ {c}
    /\ answer' = IF call[c].pc = "asked" THEN [answer EXCEPT ![c] = d] ELSE answer
    /\ UNCHANGED <<call, stopped, inbox, person, ledger, ran, refused>>

\* The person stops the run the call belongs to.
StopRun(c) ==
    /\ call[c].pc = "asked"
    /\ stopped' = stopped \cup {c}
    /\ UNCHANGED <<call, pending, answer, inbox, person, ledger, ran, refused>>

\* until_cancelled sees the flag first: the question is given up, its sender
\* stays in the map.
GiveUp(c) ==
    /\ call[c].pc = "asked" /\ c \in stopped
    /\ call' = [call EXCEPT ![c] = Ended]
    /\ refused' = refused \cup {c}
    /\ UNCHANGED <<perms, inbox, person, ledger, ran>>

Declined(c) ==
    /\ call[c].pc = "asked" /\ answer[c] = "deny"
    /\ call' = [call EXCEPT ![c] = Ended]
    /\ refused' = refused \cup {c}
    /\ UNCHANGED <<perms, inbox, person, ledger, ran>>

\* Somebody said yes: the call counts its sends next.
Admitted(c) == [Idle EXCEPT !.pc = "count", !.parts = call[c].parts]

\* Mutant: a no is taken like a yes.
SaidOnceOrNo(c) ==
    /\ call[c].pc = "asked" /\ answer[c] \in {"once", "chat", "deny"}
    /\ call' = [call EXCEPT ![c] = Admitted(c)]
    /\ refused' = IF answer[c] = "deny" THEN refused \cup {c} ELSE refused
    /\ UNCHANGED <<perms, inbox, person, ledger, ran>>

SaidOnce(c) ==
    /\ call[c].pc = "asked" /\ answer[c] \in {"once", "chat"}
    /\ call' = [call EXCEPT ![c] = Admitted(c)]
    /\ UNCHANGED <<perms, inbox, person, ledger, ran, refused>>

\* Mutant: the cap is stored as it was typed.
ClampNothing(n) == n

\* save_connector_policy holds the cap to 1..MAX_SEND_CAP.
Clamp(n) == IF n < 1 THEN 1 ELSE IF n > MaxCap THEN MaxCap ELSE n

\* Mutant: "always" for one kind allows every kind.
GrantAll(p, kind) == [p EXCEPT !.read = "run", !.change = "allow", !.send = "allow"]

\* "Always" for the kind the call was held to.
Grant(p, kind) ==
    CASE kind = "read"   -> [p EXCEPT !.read = "run"]
      [] kind = "change" -> [p EXCEPT !.change = "allow"]
      [] kind = "send"   -> [p EXCEPT !.send = "allow"]

\* Decision::Forever: each app's policy is written back as it was when the call
\* was weighed, with the one word changed.
SaidForever(c) ==
    /\ call[c].pc = "asked" /\ answer[c] = "forever"
    /\ LET parts == call[c].parts
           Saved(a) == Grant(call[c].held[a], parts[a].kind)
       IN  /\ policy' = [a \in Apps |-> IF a \in DOMAIN parts THEN Saved(a) ELSE policy[a]]
           /\ told' = [a \in Apps |->
                  IF a \notin DOMAIN parts THEN told[a]
                  ELSE CASE parts[a].kind = "read"   -> [told[a] EXCEPT !.read = "run"]
                         [] parts[a].kind = "change" -> [told[a] EXCEPT !.change = "allow"]
                         [] parts[a].kind = "send"   -> [told[a] EXCEPT !.send = "allow"]]
           /\ blurred' = blurred \cup {a \in DOMAIN parts : call[c].held[a] # policy[a]}
    /\ call' = [call EXCEPT ![c] = Admitted(c)]
    /\ UNCHANGED <<rung, edits, top, perms, inbox, ledger, ran, refused>>

\* count_sends.
CountSends(c) ==
    /\ call[c].pc = "count"
    /\ sent' = [a \in Apps |-> sent[a] + SendsOf(call[c].parts, a)]
    /\ quiet' = [a \in Apps |-> quiet[a] +
           IF call[c].quiet /\ a \in DOMAIN call[c].parts /\ call[c].seen[a] = sent[a]
           THEN call[c].parts[a].sends ELSE 0]
    /\ call' = [call EXCEPT ![c] = [Idle EXCEPT !.pc = "go", !.parts = call[c].parts]]
    /\ UNCHANGED <<left, perms, inbox, person, ran, refused>>

\* call_mcp_tool: the server does it or fails.
CallTool(c) ==
    /\ call[c].pc = "go"
    /\ call' = [call EXCEPT ![c] = Ended]
    /\ \/ /\ ran' = [ran EXCEPT ![c] = @ + 1]
          /\ left' = [a \in Apps |-> left[a] + SendsOf(call[c].parts, a)]
       \/ UNCHANGED <<ran, left>>
    /\ UNCHANGED <<sent, quiet, perms, inbox, person, refused>>

-----------------------------------------------------------------------------
(* Mail, and the inbox.                                                    *)

\* send_mail and reply_mail: off says so, ask leaves a proposal, auto sends.
SendMail(c) ==
    /\ call[c].pc = "idle"
    /\ call' = [call EXCEPT ![c] = Ended]
    /\ \/ /\ rung.email_send = "off"
          /\ refused' = refused \cup {c} /\ UNCHANGED <<prop, ran>>
       \/ /\ rung.email_send = "ask"
          /\ prop' = [prop EXCEPT ![c] = [status |-> "pending", target |-> "email", batch |-> {}, kind |-> None]]
          /\ UNCHANGED <<ran, refused>>
       \/ /\ rung.email_send = "auto"
          /\ ran' = [ran EXCEPT ![c] = @ + 1] \/ UNCHANGED ran
          /\ UNCHANGED <<prop, refused>>
    /\ UNCHANGED <<acc, clicks, perms, person, ledger>>

\* Mutant: a card is accepted without a look at the row's status.
AcceptStaleCard(k, c) ==
    /\ acc[k].pc = "free" /\ clicks < MaxClicks
    /\ prop[c].status # "none"
    /\ acc' = [acc EXCEPT ![k] = [FreeAcc EXCEPT !.pc = "start", !.of = c]]
    /\ clicks' = clicks + 1
    /\ UNCHANGED <<prop, call, perms, person, ledger, ran, refused>>

\* resolve_change_proposal_cmd, accept: the row is read and must be pending.
Accept(k, c) ==
    /\ acc[k].pc = "free" /\ clicks < MaxClicks
    /\ prop[c].status = "pending"
    /\ acc' = [acc EXCEPT ![k] = [FreeAcc EXCEPT !.pc = "start", !.of = c]]
    /\ clicks' = clicks + 1
    /\ UNCHANGED <<prop, call, perms, person, ledger, ran, refused>>

\* What is counted for a card that was left as a send: one for a plain connector;
\* for a batch, send_counts goes by the kinds the tools have now.
SendCounts(p) ==
    LET apps == {AppOf[t] : t \in p.batch} IN
    IF p.target # "app" \/ p.kind # "send" THEN NoParts
    ELSE IF apps \subseteq Plain THEN [a \in apps |-> [kind |-> "send", sends |-> 1]]
    ELSE PartsOf(p.batch, {})

\* run_approved up to call_tool, and send_now up to the send: a connector or an
\* account that is gone or switched off is an error and the row stays pending;
\* the sends of a send are counted, the cap is not looked at.
StartApproved(k) ==
    LET counts == SendCounts(prop[acc[k].of]) IN
    /\ acc[k].pc = "start"
    /\ \/ acc' = [acc EXCEPT ![k] = FreeAcc] /\ UNCHANGED sent
       \/ /\ acc' = [acc EXCEPT ![k].pc = "calling", ![k].sends = counts]
          /\ sent' = [a \in Apps |-> sent[a] + SendsOf(counts, a)]
    /\ UNCHANGED <<prop, clicks, call, perms, person, left, quiet, ran, refused>>

\* The network call is awaited; a failure leaves the row pending.
CallApproved(k) ==
    /\ acc[k].pc = "calling"
    /\ \/ /\ ran' = [ran EXCEPT ![acc[k].of] = @ + 1]
          /\ left' = [a \in Apps |-> left[a] + SendsOf(acc[k].sends, a)]
          /\ acc' = [acc EXCEPT ![k].pc = "close"]
       \/ acc' = [acc EXCEPT ![k] = FreeAcc] /\ UNCHANGED <<ran, left>>
    /\ UNCHANGED <<prop, clicks, call, perms, person, sent, quiet, refused>>

\* db.resolve_change_proposal(id, "applied").
CloseApproved(k) ==
    /\ acc[k].pc = "close"
    /\ prop' = [prop EXCEPT ![acc[k].of].status = "applied"]
    /\ acc' = [acc EXCEPT ![k] = FreeAcc]
    /\ UNCHANGED <<clicks, call, perms, person, ledger, ran, refused>>

\* resolve_change_proposal_cmd, dismiss.
Dismiss(c) ==
    /\ prop[c].status = "pending" /\ clicks < MaxClicks
    /\ prop' = [prop EXCEPT ![c].status = "dismissed"]
    /\ clicks' = clicks + 1
    /\ refused' = IF \A k \in Accepts : acc[k].of # c THEN refused \cup {c} ELSE refused
    /\ UNCHANGED <<acc, call, perms, person, ledger, ran>>

-----------------------------------------------------------------------------
(* The person's settings.                                                  *)

\* set_connector_policy_cmd: the corrections of the tools are left as they were.
SetPolicy(a) ==
    /\ edits < MaxEdits
    /\ \E ch \in Settings :
          LET p == [policy[a] EXCEPT !.read = ch.read, !.change = ch.change,
                                     !.send = ch.send, !.cap = Clamp(ch.cap)]
          IN  /\ policy' = [policy EXCEPT ![a] = p]
              /\ told' = [told EXCEPT ![a].read = ch.read, ![a].change = ch.change,
                                      ![a].send = ch.send, ![a].cap = Clamp(ch.cap)]
              /\ top' = [top EXCEPT ![a] = IF p.cap > @ THEN p.cap ELSE @]
    /\ edits' = edits + 1
    /\ UNCHANGED <<rung, blurred, call, perms, inbox, ledger, ran, refused>>

\* set_tool_kind: one tool is read, change or send from now on, or what its
\* name says again.  The permission panel offers it next to the answer.
SetToolKind(t) ==
    /\ edits < MaxEdits
    /\ \E k \in (Kinds \cup {None}) \ {policy[AppOf[t]].kind[t]} :
          /\ policy' = [policy EXCEPT ![AppOf[t]].kind[t] = k]
          /\ told' = [told EXCEPT ![AppOf[t]].kind[t] = k]
    /\ edits' = edits + 1
    /\ UNCHANGED <<rung, blurred, top, call, perms, inbox, ledger, ran, refused>>

\* set_setting_cmd, for autonomy.app_send and autonomy.email_send.
SetRung ==
    /\ edits < MaxEdits
    /\ \E class \in DOMAIN rung, r \in Rungs :
          r # rung[class] /\ rung' = [rung EXCEPT ![class] = r]
    /\ edits' = edits + 1
    /\ UNCHANGED <<policy, told, blurred, top, call, perms, inbox, ledger, ran, refused>>

Next ==
    \/ \E c \in Calls :
          \/ Plan(c) \/ WeighRefused(c) \/ WeighAllowed(c) \/ LeaveForApproval(c) \/ OpenRequest(c)
          \/ \E d \in {"deny", "once", "chat", "forever"} : Resolve(c, d)
          \/ StopRun(c) \/ GiveUp(c) \/ Declined(c) \/ SaidOnce(c) \/ SaidForever(c)
          \/ CountSends(c) \/ CallTool(c) \/ SendMail(c) \/ Dismiss(c)
    \/ \E k \in Accepts :
          (\E c \in Calls : Accept(k, c)) \/ StartApproved(k) \/ CallApproved(k) \/ CloseApproved(k)
    \/ \E a \in Apps : SetPolicy(a)
    \/ \E t \in Tools : SetToolKind(t)
    \/ SetRung

Spec == Init /\ [][Next]_vars

-----------------------------------------------------------------------------
(* Properties.                                                             *)

\* The variables have the types the code gives them; in particular every stored
\* policy has a cap within 1..MAX_SEND_CAP and words the gate knows, an open
\* question belongs to a call, and a call under way names what it touches.
TypeOK ==
    /\ \A a \in Apps : policy[a] \in Policies /\ told[a] \in Policies
    /\ rung \in [{"app_send", "email_send"} -> Rungs]
    /\ sent \in [Apps -> Nat] /\ left \in [Apps -> Nat] /\ quiet \in [Apps -> Nat]
    /\ top \in [Apps -> 1..MaxCap]
    /\ \A c \in Calls :
          /\ call[c].pc \in {"idle", "weigh", "asked", "count", "go", "end"}
          /\ DOMAIN call[c].parts \subseteq Apps
          /\ call[c].pc \in {"weigh", "asked", "count", "go"} => call[c].parts # NoParts
          /\ \A a \in DOMAIN call[c].held : call[c].held[a] \in Policies
          /\ prop[c].status \in {"none", "pending", "applied", "dismissed"}
    /\ pending \subseteq {c \in Calls : call[c].pc \in {"asked", "end"}}
    /\ answer \in [Calls -> {None, "deny", "once", "chat", "forever"}]
    /\ stopped \subseteq Calls /\ refused \subseteq Calls /\ blurred \subseteq Apps
    /\ \A k \in Accepts : acc[k].pc # "free" => prop[acc[k].of].status # "none"
    /\ edits \in 0..MaxEdits /\ clicks \in 0..MaxClicks
    /\ ran \in [Calls -> 0..(1 + MaxClicks)]

\* The daily cap means what the settings say (admit, count_sends, run_approved):
\* every send that left through an app is in the day's count, whoever said yes
\* to it, and the sends nobody was asked about never pass the highest cap the
\* person had set, but for a call whose look at the count was overtaken by
\* another call's send before it raised the count itself.
CapHolds ==
    \A a \in Apps : left[a] <= sent[a] /\ quiet[a] <= top[a]

\* A no is final.  A call that was declined, given up with a stopped run,
\* refused because sending is off, or dismissed from the inbox while nobody was
\* accepting it is never carried out, also when a panel or a card that was
\* still on the screen is answered afterwards.
NoMeansNo ==
    \A c \in refused : ran[c] = 0

\* An app's stored policy is what the person last said, through the settings,
\* a tool's correction or an "always", which is about one kind of call only;
\* except for an app whose settings were changed while a question about it was
\* open that was then answered with "always".
AlwaysKeepsTheRest ==
    \A a \in Apps \ blurred : policy[a] = told[a]

\* commands/memory.rs, resolve_change_proposal_cmd: an answered proposal is not
\* applied a second time.
AcceptedOnce ==
    \A c \in Calls : ran[c] <= 1
=============================================================================
