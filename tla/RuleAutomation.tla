--------------------------- MODULE RuleAutomation ---------------------------
(***************************************************************************)
(* The executions of automation rules: ruleAutomationService.js, with the  *)
(* tweak it runs on its own (automaticTweakRuleAction.js), the handler of  *)
(* the administrator broker's state and the approval call in main.js, and  *)
(* the renderer that confirms what the service may not run on its own      *)
(* (executeAutomationRuleAction in App.jsx).                               *)
(*                                                                         *)
(* One action is what runs up to the next await that leaves the process'   *)
(* own continuations. Whether a rule matches, and whether an execution is  *)
(* still valid (its expiry, its rule, its conditions), is a free choice at *)
(* each place where the code evaluates it; so is the end of a cooldown.    *)
(***************************************************************************)
EXTENDS Integers, Sequences, SequencesExt

CONSTANTS
    Rule,
    Execution,  \* the executions the rules can come to
    RuleOf,     \* RuleOf[e]: the rule e is an execution of
    Kind,       \* Kind[r]: what the action of the rule is, see Kinds
    Admin,      \* the rules whose tweak requires administrator rights
    Limit       \* entries `pending` is cut to, 25 in the code

\* "unattended": a tweak whose confirmation is bypassed, or a timer resolution;
\* "confirmed": any other tweak; "renderer": an optimisation; "close": askClose.
Kinds == {"unattended", "confirmed", "renderer", "close", "notify"}

ASSUME RuleAssumption ==
    /\ RuleOf \in [Execution -> Rule]
    /\ Kind \in [Rule -> Kinds]
    /\ Admin \subseteq {r \in Rule : Kind[r] \in {"unattended", "confirmed"}}
    /\ Limit \in Nat \ {0}

VARIABLES
    pending,    \* the pending executions, newest first
    status,     \* status[e]: the entry of e in `history`
    blocked,    \* pending entries with blockedReason 'awaitingAdmin'
    stored,     \* the state file
    attempt,    \* attempt[e]: tryExecuteAutomatic(e), while it runs
    prompt,     \* attempts with allowAdminPrompt
    user,       \* user[e]: executeAutomationRuleAction(e) in the renderer
    ready,      \* the broker's state, as getState() reports it
    wasReady,   \* adminBrokerWasReady
    told,       \* history: those who wait for approval have been announced
    stale       \* history: those who waited for approval when a session ended

memory == <<pending, status, blocked, stored, told>>
tries == <<attempt, prompt>>
vars == <<memory, tries, user, ready, wasReady, stale>>

Status == {"none", "pending", "completed", "failed", "dismissed", "expired", "cleared"}

TypeOK ==
    /\ pending \in Seq(Execution) /\ IsInjective(pending)
    /\ status \in [Execution -> Status]
    /\ blocked \subseteq ToSet(pending)
    /\ stored = [pending |-> pending, status |-> status, blocked |-> blocked]
    /\ attempt \in [Execution -> {"none", "preparing", "saving", "applying"}]
    /\ prompt \subseteq Execution
    /\ user \in [Execution -> {"none", "waits", "works", "closing", "refused"}]
    /\ ready \in BOOLEAN /\ wasReady \in BOOLEAN /\ told \in BOOLEAN
    /\ stale \subseteq Execution

Init ==
    /\ pending = <<>> /\ blocked = {}
    /\ status = [e \in Execution |-> "none"]
    /\ stored = [pending |-> <<>>, status |-> status, blocked |-> {}]
    /\ attempt = [e \in Execution |-> "none"] /\ prompt = {}
    /\ user = [e \in Execution |-> "none"]
    /\ ready = FALSE /\ wasReady = FALSE
    /\ told = FALSE /\ stale = {}

Listed(e) == e \in ToSet(pending)
InFlight(e) == attempt[e] # "none"

\* The entries of S in a history h become st; a cleared entry is no more.
Marked(h, S, st) == [e \in Execution |-> IF e \in S /\ h[e] # "cleared" THEN st ELSE h[e]]

\* Mutant of Saved: the file keeps what it had.
SavedNever(p, h, b) == stored' = stored

\* persist(), part of every change of pending or history.
Saved(p, h, b) == stored' = [pending |-> p, status |-> h, blocked |-> b]

Becomes(p, h, b, notice) ==
    /\ pending' = p /\ status' = h /\ blocked' = b
    /\ Saved(p, h, b)
    /\ told' = (b # {} /\ (told \/ notice))

\* pending.filter(): the entries of a list that are not in S, in their order.
Without(list, S) ==
    LET kept    == {i \in DOMAIN list : list[i] \notin S}
        rank(i) == Cardinality({j \in kept : j <= i})
    IN  [k \in 1 .. Cardinality(kept) |-> list[CHOOSE i \in kept : rank(i) = k]]

\* Executions S leave the list m.pending: complete(), expire(), dismiss().
LeaveFrom(m, S, st) ==
    Becomes(Without(m.pending, S), Marked(m.status, S, st), m.blocked \ S, FALSE)
Leave(S, st) == LeaveFrom([pending |-> pending, status |-> status, blocked |-> blocked], S, st)

Ends(e) == attempt' = [attempt EXCEPT ![e] = "none"] /\ prompt' = prompt \ {e}

\* The call of the renderer that waits for this attempt resolves.
Resolves(e, ok) == user' = IF e \in prompt /\ user[e] = "waits"
                           THEN [user EXCEPT ![e] = IF ok THEN "none" ELSE "refused"]
                           ELSE user

\* executeAutomaticTweakRuleAction() takes the action over, before any await.
Handles(e, rdy) == Kind[RuleOf[e]] = "unattended" \/ (Kind[RuleOf[e]] = "confirmed" /\ rdy)
Begins(e, p) ==
    IF Handles(e, ready) THEN /\ attempt' = [attempt EXCEPT ![e] = "preparing"]
                              /\ prompt' = IF p THEN prompt \cup {e} ELSE prompt
                         ELSE UNCHANGED tries
NeedsAdmin(e) == RuleOf[e] \in Admin

-----------------------------------------------------------------------------
(***************************************************************************)
(* Rules fire, and the service runs what it may run on its own             *)
(***************************************************************************)

\* fire(), from evaluate(): the rule matches, its hold and its cooldown are over.
\* A notification is all of its action; any other is listed, and tried at once.
Fire(e) ==
    /\ status[e] = "none"
    /\ \A f \in ToSet(pending) : RuleOf[f] # RuleOf[e]
    /\ IF Kind[RuleOf[e]] = "notify"
       THEN /\ Becomes(pending, Marked(status, {e}, "completed"), blocked, FALSE)
            /\ UNCHANGED tries
       ELSE LET kept == IF Len(pending) < Limit THEN pending ELSE Front(pending)
            IN /\ Becomes(<<e>> \o kept, Marked(status, {e}, "pending"), blocked \cap ToSet(kept), FALSE)
               /\ Begins(e, FALSE)
    /\ UNCHANGED <<user, ready, wasReady, stale>>

\* Mutant of Alone: the entries of an ordinary confirmation count as a group.
AloneInList(e) == ToSet(pending) \subseteq {e}

\* No other execution waits for approval: the user has not been told of a group.
Alone(e) == blocked \subseteq {e}

\* Mutant of MarkAwaitingAdmin: the execution is put back into the list.
MarkAwaitingAdminListed(e) ==
    /\ Becomes(IF Listed(e) THEN pending ELSE <<e>> \o pending, Marked(status, {e}, "pending"),
               blocked \cup {e}, e \notin blocked /\ Alone(e))
    /\ Ends(e) /\ Resolves(e, FALSE)
    /\ UNCHANGED <<ready, wasReady, stale>>

\* markAwaitingAdmin(): an execution that has left the list meanwhile only gets
\* its history entry back to 'pending'.
MarkAwaitingAdmin(e) ==
    /\ Becomes(pending, Marked(status, {e}, "pending"),
               IF Listed(e) THEN blocked \cup {e} ELSE blocked,
               Listed(e) /\ e \notin blocked /\ Alone(e))
    /\ Ends(e) /\ Resolves(e, FALSE)
    /\ UNCHANGED <<ready, wasReady, stale>>

\* The tweak requires rights that nobody has approved.
RightsMissing(e) ==
    /\ attempt[e] = "preparing"
    /\ NeedsAdmin(e) /\ e \notin prompt /\ ~ready
    /\ MarkAwaitingAdmin(e)

Prepared(e) ==
    /\ attempt[e] = "preparing"
    /\ NeedsAdmin(e) /\ e \notin prompt => ready
    /\ attempt' = [attempt EXCEPT ![e] = "saving"]
    /\ UNCHANGED <<memory, prompt, user, ready, wasReady, stale>>

\* The backup is made; the broker takes the operation, or refuses it at once.
Apply(e) ==
    /\ attempt[e] = "saving"
    /\ NeedsAdmin(e) => ready
    /\ attempt' = [attempt EXCEPT ![e] = "applying"]
    /\ UNCHANGED <<memory, prompt, user, ready, wasReady, stale>>

BrokerRefuses(e) ==
    /\ attempt[e] = "saving"
    /\ NeedsAdmin(e) /\ ~ready
    /\ MarkAwaitingAdmin(e)

\* complete() of an attempt, which can fail at any step.
AttemptEnds(e, ok) ==
    /\ IF ok THEN attempt[e] = "applying" ELSE InFlight(e)
    /\ Leave({e}, IF ok THEN "completed" ELSE "failed")
    /\ Ends(e) /\ Resolves(e, ok)
    /\ UNCHANGED <<ready, wasReady, stale>>

\* resumePendingAutomaticActions() on the list of m, with attempts `now`: what
\* waits since an earlier session (`old`) expires; the rest is tried, those that
\* wait, or all when rights were approved, after a validation `lapsed` do not pass.
Resume(m, now, old, rdy, approved, lapsed) ==
    LET tried == {e \in ToSet(m.pending) \ old : now[e] = "none"}
        over  == {e \in tried \cap lapsed : e \in m.blocked \/ approved}
    IN /\ LeaveFrom(m, old \cup over, "expired")
       /\ attempt' = [e \in Execution |-> IF e \in tried \ over /\ Handles(e, rdy)
                                          THEN "preparing" ELSE now[e]]

-----------------------------------------------------------------------------
(***************************************************************************)
(* The administrator broker                                                *)
(***************************************************************************)

\* What waits was marked in this session: a start leaves none of an earlier one.
ResumeApproved(lapsed) ==
    Resume([pending |-> pending, status |-> status, blocked |-> blocked],
           attempt, {}, TRUE, TRUE, lapsed)

\* handleAdminBrokerStateChange(), when rights were approved.
BrokerReady(lapsed) ==
    /\ ~ready
    /\ IF wasReady THEN UNCHANGED <<memory, attempt>> ELSE ResumeApproved(lapsed)
    /\ ready' = TRUE /\ wasReady' = TRUE
    /\ UNCHANGED <<prompt, user, stale>>

\* Mutant of BrokerLost: the loss is not remembered.
BrokerLostUnseen ==
    /\ ready /\ ready' = FALSE
    /\ UNCHANGED <<memory, tries, user, wasReady, stale>>

BrokerLost ==
    /\ ready /\ ready' = FALSE /\ wasReady' = FALSE
    /\ UNCHANGED <<memory, tries, user, stale>>

\* The approval call when rights are there already; otherwise it waits for the
\* broker, whose state change comes first and resumes everything.
ApproveAdminPending(lapsed) ==
    /\ ready /\ blocked # {}
    /\ ResumeApproved(lapsed)
    /\ UNCHANGED <<prompt, user, ready, wasReady, stale>>

-----------------------------------------------------------------------------
(***************************************************************************)
(* The user and the renderer                                               *)
(***************************************************************************)

\* execute(), confirmed by the user: an execution that left the list is not
\* found, one in flight goes on, and one that is no longer valid expires.
ExecuteRefused(e) ==
    /\ user[e] = "none"
    /\ \/ ~Listed(e) /\ status[e] # "none" /\ Kind[RuleOf[e]] # "notify" /\ UNCHANGED memory
       \/ Listed(e) /\ ~InFlight(e) /\ Leave({e}, "expired")
    /\ user' = [user EXCEPT ![e] = "refused"]
    /\ UNCHANGED <<tries, ready, wasReady, stale>>

Execute(e) ==
    /\ user[e] = "none"
    /\ Listed(e) /\ ~InFlight(e)
    /\ Begins(e, TRUE)
    /\ user' = [user EXCEPT ![e] = IF Handles(e, ready) THEN "waits"
                                   ELSE IF Kind[RuleOf[e]] = "close" THEN "closing" ELSE "works"]
    /\ UNCHANGED <<memory, ready, wasReady, stale>>

\* requestCloseProcess() comes back: its failure is the renderer's to report.
CloseEnds(e, ok) ==
    /\ user[e] = "closing"
    /\ user' = [user EXCEPT ![e] = IF ok THEN "none" ELSE "refused"]
    /\ IF ok THEN Leave({e}, "completed") ELSE UNCHANGED memory
    /\ UNCHANGED <<tries, ready, wasReady, stale>>

\* The renderer reports what it did, or that the service has refused.
RendererCompletes(e, ok) ==
    /\ user[e] = "works" \/ (user[e] = "refused" /\ ~ok)
    /\ Leave({e}, IF ok THEN "completed" ELSE "failed")
    /\ user' = [user EXCEPT ![e] = "none"]
    /\ UNCHANGED <<tries, ready, wasReady, stale>>

Dismiss(e) ==
    /\ Listed(e)
    /\ Leave({e}, "dismissed")
    /\ UNCHANGED <<tries, user, ready, wasReady, stale>>

ClearHistory ==
    /\ \E e \in Execution : status[e] \notin {"none", "cleared"}
    /\ Becomes(pending, [e \in Execution |-> IF status[e] = "none" THEN "none" ELSE "cleared"],
               blocked, FALSE)
    /\ UNCHANGED <<tries, user, ready, wasReady, stale>>

\* Mutant of EarlierSession: waiting entries are taken for those of this session.
EarlierSessionNone == {}

\* The entries of the file that wait for approval carry another session's id.
EarlierSession == stored.blocked

\* The application ends at any moment and starts again: the service loads its
\* file and resumes what is pending, without rights. A validation is only made of
\* the entries that wait.
Restart(lapsed) ==
    /\ Resume(stored, [e \in Execution |-> "none"], EarlierSession, FALSE, FALSE, lapsed)
    /\ prompt' = {}
    /\ user' = [e \in Execution |-> "none"]
    /\ ready' = FALSE /\ wasReady' = FALSE
    /\ stale' = stale \cup stored.blocked

-----------------------------------------------------------------------------
Attempt(e) ==
    \/ RightsMissing(e) \/ Prepared(e) \/ Apply(e) \/ BrokerRefuses(e)
    \/ \E ok \in BOOLEAN : AttemptEnds(e, ok)

RendererStep(e) ==
    \/ Execute(e) \/ ExecuteRefused(e) \/ Dismiss(e)
    \/ \E ok \in BOOLEAN : CloseEnds(e, ok) \/ RendererCompletes(e, ok)

Next ==
    \/ \E e \in Execution : Fire(e) \/ Attempt(e) \/ RendererStep(e)
    \/ \E lapsed \in SUBSET ToSet(pending) :
          BrokerReady(lapsed) \/ ApproveAdminPending(lapsed) \/ Restart(lapsed)
    \/ BrokerLost \/ ClearHistory

Spec == Init /\ [][Next]_vars

-----------------------------------------------------------------------------
(***************************************************************************)
(* Properties                                                              *)
(***************************************************************************)

\* As long as an execution waits for approval, the user has been told that the
\* group it belongs to does: grouping never swallows the first notice.
AwaitingIsAnnounced == blocked # {} => told

\* With rights approved no execution is left waiting for them: each is being run,
\* whatever it was doing when the rights came, went, and came again.
ReadyMeansResumed == ready => \A e \in blocked : InFlight(e)

\* An execution that waited for approval when its session ended is never listed
\* or run in a later one, whatever the user approves or executes there.
EarlierSessionNeverRuns == \A e \in stale : ~Listed(e) /\ ~InFlight(e)

\* An execution that has left the list is decided: no late outcome, resumption,
\* approval or restart lists it again, and none begins to run it again.
Decided(e) == status[e] # "none" /\ ~Listed(e)
DecidedIsFinal == [][\A e \in Execution : Decided(e) =>
                        Decided(e)' /\ (InFlight(e)' => InFlight(e))]_vars
=============================================================================
