----------------------------- MODULE OAuthLogin -----------------------------
(***************************************************************************)
(* Signing in to the subscription of one provider, and out again.  A login *)
(* is started from the dashboard, approved at the provider and completed   *)
(* by a call that redeems it for tokens and stores them as a key of the    *)
(* tenant (RedirectPkceOauthBaseService, AnthropicOauthService, Kiro- and  *)
(* MinimaxOauthService, ProviderService), and then looks for the models of *)
(* that key and saves it again, as a refresh of the models does later      *)
(* (ModelDiscoveryService).  Revoking hands the tokens back and removes    *)
(* the keys.  Calls interleave at every await, and stop there when their   *)
(* process does.                                                           *)
(*                                                                         *)
(* Left out: what ProviderKeys and ProviderAccess model (priorities, other *)
(* edits of keys, access of agents), the cache the key list of a           *)
(* revocation may come from, and Copilot, whose login keeps no flow.       *)
(***************************************************************************)
EXTENDS Integers, FiniteSets

CONSTANTS
  Callers,     (* dashboard requests; each is used again                     *)
  Logins,      (* logins, each with the state, flow and tokens of its own    *)
  MaxKeys,     (* MAX_KEYS_PER_PROVIDER                                      *)
  MaxOthers,   (* bound: calls of revoke and refresh in a behaviour          *)
  None

ASSUME LoginAssumption ==
  /\ None \notin Logins /\ IsFiniteSet(Logins)
  /\ MaxKeys \in Nat /\ MaxOthers \in Nat

(* How the provider tells Tuple: the browser is redirected to a callback   *)
(* with code and state, the user pastes a code, or Tuple polls.            *)
Kinds == {"redirect", "paste", "device"}

VARIABLES
  kind,       (* of the provider                                            *)
  flows,      (* pending flows in the PendingStore, in the Map of a device  *)
              (* service or in the table oauth_pending_flows: for each      *)
              (* login its place in the order of creation, 0 without a flow *)
  grant,      (* a login at the provider                                    *)
  rows,       (* tenant_providers: the keys, each named by the login it was *)
              (* inserted for                                               *)
  call,       (* what each caller is doing                                  *)
  others,     (* calls of revoke and refresh so far                         *)
  revoked,    (* logins whose tokens the provider took back                 *)
  sent,       (* history: how often a flow's verifier went to the provider  *)
              (* with a code (a device has none)                            *)
  told,       (* history: logins reported as connected                      *)
  gone,       (* history: logins whose key was removed on request           *)
  spared,     (* history: logins whose tokens the provider would not take   *)
              (* back, or that were stored after they had been looked up    *)
  kept,       (* history: logins whose removal was refused or cut short     *)
  overlapped, (* history: logins overwritten by one that chose its label    *)
              (* before they were stored, or by an older copy of their key  *)
  revived     (* history: logins whose key discovery saved again after it   *)
              (* had been removed                                           *)

keys    == <<rows, revoked>>
history == <<sent, told, gone, spared, kept, overlapped, revived>>
vars    == <<kind, flows, grant, keys, call, others, history>>

-----------------------------------------------------------------------------
(* Keys.  Label 1 is "Default", label n is "Key n".                        *)

Default == 1

NoKeys == [k \in {} |-> None]

Active(rs) == {k \in DOMAIN rs : rs[k].active}
LoginsOf(rs) == {rs[k].login : k \in Active(rs)}
Labelled(rs, l) == {k \in DOMAIN rs : rs[k].label = l}

LabelsUnique(rs) ==
  \A j, k \in DOMAIN rs : rs[j].label = rs[k].label => j = k

(* Mutant: the number after the number of keys, free or not.               *)
NextLabelByCount(rs) == Cardinality(Active(rs)) + 1

(* nextOAuthLabel: one key has that label or a lower one is free.          *)
NextLabel(rs) ==
  LET n     == Cardinality(Active(rs))
      Free  == {l \in n + 1 .. 2 * n + 1 :
                  Labelled(rs, l) \intersect Active(rs) = {}}
  IN  IF n = 0 THEN Default ELSE CHOOSE l \in Free : \A m \in Free : l <= m

-----------------------------------------------------------------------------
(* Callers.  "late": the keys were written by another call since this one  *)
(* chose its label, stored its key, or listed the keys to hand back.       *)

Idle == [at |-> "idle", login |-> None, flow |-> None, label |-> 0,
         seen |-> NoKeys, todo |-> {}, late |-> FALSE]

NoFlows == [l \in Logins |-> 0]

Init ==
  /\ kind \in Kinds
  /\ flows = NoFlows
  /\ grant = [l \in Logins |-> "none"]
  /\ rows = NoKeys
  /\ call = [c \in Callers |-> Idle]
  /\ others = 0
  /\ revoked = {}
  /\ sent = [l \in Logins |-> 0]
  /\ told = {} /\ gone = {} /\ spared = {} /\ kept = {}
  /\ overlapped = {} /\ revived = {}

Move(c, next) == call' = [call EXCEPT ![c] = next]

Wrote(c, new, next) ==
  /\ rows' = new
  /\ call' = [d \in Callers |->
                IF d = c THEN next
                ELSE IF call[d].at = "idle" THEN call[d]
                ELSE [call[d] EXCEPT !.late = TRUE]]

-----------------------------------------------------------------------------
(* Starting a login.                                                       *)

Pending(l) == flows[l] > 0

Add(l) ==
  \E n \in 1 .. Cardinality(Logins) :
    /\ \A m \in Logins : flows[m] < n
    /\ \E m \in Logins : flows[m] = n - 1
    /\ flows' = [flows EXCEPT ![l] = n]

Drop(l) == flows' = [flows EXCEPT ![l] = 0]

Starts(l) ==
  /\ grant[l] = "none"
  /\ grant' = [grant EXCEPT ![l] = "asked"]

(* PendingStore.set, or the Map after the provider's answer.               *)
StartInMemory ==
  /\ kind # "paste"
  /\ \E l \in Logins : Starts(l) /\ Add(l)
  /\ UNCHANGED <<kind, keys, call, others, history>>

(* create: the agent's flows are deleted in one statement ...              *)
DeleteFlows(c) ==
  /\ kind = "paste" /\ call[c].at = "idle"
  /\ \E l \in Logins :
       Starts(l) /\ Move(c, [Idle EXCEPT !.at = "insert", !.flow = l])
  /\ flows' = NoFlows
  /\ UNCHANGED <<kind, keys, others, history>>

(* ... and the new one is inserted in another.                             *)
InsertFlow(c) ==
  /\ call[c].at = "insert"
  /\ Add(call[c].flow)
  /\ Move(c, Idle)
  /\ UNCHANGED <<kind, grant, keys, others, history>>

-----------------------------------------------------------------------------
(* Completing it.                                                          *)

(* Mutant: the flow is looked up and not deleted.                          *)
TakePeeks(l) == Pending(l) /\ UNCHANGED flows

(* A flow is removed as it is found: peek and delete without an await, or  *)
(* DELETE ... RETURNING.                                                   *)
Take(l) == Pending(l) /\ Drop(l)

(* Code and state come together: in the callback, or as "code#state".      *)
Callback(c) ==
  /\ kind # "device" /\ call[c].at = "idle"
  /\ \E l \in Logins :
       /\ grant[l] \in {"approved", "redeemed"}
       /\ Take(l)
       /\ Move(c, [Idle EXCEPT !.at = "exchange", !.login = l, !.flow = l])
  /\ UNCHANGED <<kind, grant, keys, others, history>>

(* A code without a state is taken for the one of the latest flow ...      *)
PasteBare(c) ==
  /\ kind = "paste" /\ call[c].at = "idle"
  /\ \E l, latest \in Logins :
       /\ grant[l] \in {"approved", "redeemed"}
       /\ Pending(latest) /\ \A m \in Logins : flows[m] <= flows[latest]
       /\ Move(c, [Idle EXCEPT !.at = "found", !.login = l, !.flow = latest])
  /\ UNCHANGED <<kind, flows, grant, keys, others, history>>

(* ... which is consumed whatever the code turns out to be.                *)
Consume(c) ==
  /\ call[c].at = "found"
  /\ IF Pending(call[c].flow)
       THEN Take(call[c].flow) /\ Move(c, [call[c] EXCEPT !.at = "exchange"])
       ELSE Move(c, Idle) /\ UNCHANGED flows
  /\ UNCHANGED <<kind, grant, keys, others, history>>

(* The provider redeems a code once and for the verifier it belongs to.    *)
(* Its answer may be lost.                                                 *)
Exchange(c) ==
  LET l == call[c].login
      good == grant[l] = "approved" /\ call[c].flow = l
  IN  /\ call[c].at = "exchange"
      /\ sent' = [sent EXCEPT ![call[c].flow] = @ + 1]
      /\ grant' = IF good THEN [grant EXCEPT ![l] = "redeemed"] ELSE grant
      /\ \/ good /\ Move(c, [Idle EXCEPT !.at = "label", !.login = l])
         \/ Move(c, Idle)
      /\ UNCHANGED <<kind, flows, keys, others, told, gone, spared, kept,
                     overlapped, revived>>

(* pollAuthorization: the flow stays while the provider is asked.          *)
Poll(c) ==
  /\ kind = "device" /\ call[c].at = "idle"
  /\ \E l \in Logins :
       Pending(l) /\ Move(c, [Idle EXCEPT !.at = "asking", !.login = l])
  /\ UNCHANGED <<kind, flows, grant, keys, others, history>>

(* "pending" and a lost answer keep the flow, any other answer deletes it, *)
(* one the service cannot make sense of included.                          *)
Answer(c) ==
  LET l == call[c].login IN
  /\ call[c].at = "asking"
  /\ grant' = IF grant[l] = "approved" THEN [grant EXCEPT ![l] = "redeemed"]
                                       ELSE grant
  /\ \/ /\ grant[l] = "approved"
        /\ Drop(l) /\ Move(c, [Idle EXCEPT !.at = "label", !.login = l])
     \/ Drop(l) /\ Move(c, Idle)
     \/ Move(c, Idle) /\ UNCHANGED flows
  /\ UNCHANGED <<kind, keys, others, history>>

-----------------------------------------------------------------------------
(* Storing the tokens: one label is read from the keys, then the key of    *)
(* that label is looked for, then it is written.                           *)

ChooseLabel(c) ==
  /\ call[c].at = "label"
  /\ Move(c, [call[c] EXCEPT !.at = "lookup", !.label = NextLabel(rows),
                             !.late = FALSE])
  /\ UNCHANGED <<kind, flows, grant, keys, others, history>>

(* upsertProvider.  The limit counts for a new label only.                 *)
LookUp(c) ==
  LET w     == call[c]
      found == Labelled(rows, w.label)
      key   == [label |-> w.label, login |-> w.login, active |-> TRUE]
  IN  /\ w.at = "lookup"
      /\ IF found = {} /\ w.label # Default /\ Cardinality(Active(rows)) >= MaxKeys
           THEN Move(c, Idle)
           ELSE LET id == IF found = {} THEN w.login ELSE CHOOSE k \in found : TRUE
                IN  Move(c, [w EXCEPT !.at = "store", !.seen = [k \in {id} |-> key]])
      /\ UNCHANGED <<kind, flows, grant, keys, others, history>>

(* The keys as they are with the entities a call has at hand, saved whole. *)
Saved(seen) ==
  [k \in DOMAIN rows \union DOMAIN seen |->
     IF k \in DOMAIN seen THEN seen[k] ELSE rows[k]]

(* insert, or save of the key found: it fails on the unique label.         *)
StoreKey(c) ==
  LET w   == call[c]
      new == Saved(w.seen)
      lost == (LoginsOf(rows) \ LoginsOf(new)) \ {w.login}
  IN  /\ w.at = "store"
      /\ IF LabelsUnique(new)
           THEN Wrote(c, new, [w EXCEPT !.at = "discover", !.late = FALSE])
           ELSE Move(c, Idle) /\ UNCHANGED rows
      /\ overlapped' = IF LabelsUnique(new) /\ w.late THEN overlapped \union lost
                                                      ELSE overlapped
      /\ UNCHANGED <<kind, flows, grant, others, revoked, sent, told, gone,
                     spared, kept, revived>>

(* The models of an active key are asked for again: no login waits.        *)
Refresh(c) ==
  /\ call[c].at = "idle"
  /\ others < MaxOthers /\ others' = others + 1
  /\ \E k \in Active(rows) :
       Move(c, [Idle EXCEPT !.at = "refresh", !.login = rows[k].login,
                  !.label = rows[k].label, !.seen = [j \in {k} |-> rows[j]]])
  /\ UNCHANGED <<kind, flows, grant, keys, history>>

Discovering == {"discover", "refresh"}

Discovered(w) == IF w.at = "refresh" THEN Idle ELSE [w EXCEPT !.at = "reply"]

(* discoverModels saves the key as it was stored or read, whatever has     *)
(* become of it, once the models are known; it may find none or fail.      *)
Discover(c) ==
  LET w    == call[c]
      new  == Saved(w.seen)
      lost == LoginsOf(rows) \ LoginsOf(new)
  IN  /\ w.at \in Discovering
      /\ \/ /\ Move(c, Discovered(w))
            /\ UNCHANGED <<rows, overlapped, revived>>
         \/ /\ LabelsUnique(new)
            /\ Wrote(c, new, Discovered(w))
            /\ overlapped' = IF w.late THEN overlapped \union lost ELSE overlapped
            /\ revived' = revived \union (LoginsOf(new) \ LoginsOf(rows))
      /\ UNCHANGED <<kind, flows, grant, others, revoked, sent, told, gone,
                     spared, kept>>

(* The agents' access has been written; if that fails, so does the login.  *)
Reply(c) ==
  /\ call[c].at = "reply"
  /\ told' \in {told, told \union {call[c].login}}
  /\ Move(c, Idle)
  /\ UNCHANGED <<kind, flows, grant, keys, others, sent, gone, spared, kept,
                 overlapped, revived>>

-----------------------------------------------------------------------------
(* revoke, for one label or for all keys (label 0).  Only the services     *)
(* with a redirect hand tokens back; the others just remove the keys.      *)

(* Mutant: one key is removed and all are handed back.                     *)
TargetsAll(rs, l) == Active(rs)

(* Mutant: only the first key is handed back.                              *)
TargetsDefault(rs, l) == Active(rs) \intersect Labelled(rs, Default)

Targets(rs, l) ==
  IF l = 0 THEN Active(rs) ELSE Active(rs) \intersect Labelled(rs, l)

Revoke(c) ==
  /\ call[c].at = "idle"
  /\ others < MaxOthers /\ others' = others + 1
  /\ \E l \in {0} \union {rows[k].label : k \in DOMAIN rows} :
       Move(c, [Idle EXCEPT !.at = "revoke", !.label = l,
                  !.todo = IF kind = "redirect"
                             THEN {rows[k].login : k \in Targets(rows, l)} ELSE {}])
  /\ UNCHANGED <<kind, flows, grant, keys, history>>

(* revokeToken is best effort.                                             *)
HandBack(c) ==
  /\ call[c].at = "revoke"
  /\ \E l \in call[c].todo :
       /\ \/ revoked' = revoked \union {l} /\ UNCHANGED spared
          \/ spared' = spared \union {l} /\ UNCHANGED revoked
       /\ Move(c, [call[c] EXCEPT !.todo = @ \ {l}])
  /\ UNCHANGED <<kind, flows, grant, rows, others, sent, told, gone, kept,
                 overlapped, revived>>

(* removeKeyByLabel reads the keys again and deletes the one of the label, *)
(* unless it is the last active one ...                                    *)
Deleted(l) == {k \in Labelled(rows, l) : Active(rows) # {k}}

LastKey(l) == Active(rows) # {} /\ Active(rows) = Labelled(rows, l)

Doom(c, ks, next) ==
  /\ ks # {}
  /\ Move(c, [call[c] EXCEPT !.at = next,
                !.seen = [k \in ks |-> [rows[k] EXCEPT !.active = FALSE]]])

FindDoomed(c) ==
  LET l == call[c].label IN
  /\ call[c].at = "revoke" /\ call[c].todo = {}
  /\ \/ Doom(c, Deleted(l), "delete")
     \/ l = 0 /\ Doom(c, Active(rows), "deactivate")
     \/ LastKey(l) /\ Move(c, [call[c] EXCEPT !.at = "last"])
  /\ UNCHANGED <<kind, flows, grant, keys, others, history>>

(* ... which is left to removeProvider: it reads once more and deactivates *)
(* every active key.                                                       *)
FindActive(c) ==
  /\ call[c].at = "last"
  /\ \/ Doom(c, Active(rows), "deactivate")
     \/ Active(rows) = {} /\ Move(c, Idle)
  /\ UNCHANGED <<kind, flows, grant, keys, others, history>>

(* What is removed now and was not handed back came in after the listing.  *)
RemoveKeys(c, new) ==
  LET lost == LoginsOf(rows) \ LoginsOf(new) IN
  /\ Wrote(c, new, Idle)
  /\ gone' = gone \union lost
  /\ spared' = IF call[c].late THEN spared \union (lost \ revoked) ELSE spared
  /\ UNCHANGED <<kind, flows, grant, others, revoked, sent, told, kept, overlapped,
                 revived>>

DeleteKeys(c) ==
  /\ call[c].at = "delete"
  /\ RemoveKeys(c, [k \in DOMAIN rows \ DOMAIN call[c].seen |-> rows[k]])

DeactivateKeys(c) ==
  /\ call[c].at = "deactivate" /\ LabelsUnique(Saved(call[c].seen))
  /\ RemoveKeys(c, Saved(call[c].seen))

Removing == {"revoke", "last", "delete", "deactivate"}

(* The call ends there: a statement failed, the process stopped, the key   *)
(* to remove is not there or one of its models is on a route.              *)
Abandon(c) ==
  /\ call[c].at # "idle"
  /\ Move(c, Idle)
  /\ kept' = IF call[c].at \in Removing
               THEN kept \union (LoginsOf(rows) \intersect revoked) ELSE kept
  /\ UNCHANGED <<kind, flows, grant, keys, others, sent, told, gone, spared,
                 overlapped, revived>>

-----------------------------------------------------------------------------
(* The user at the provider, and time.                                     *)

Decide ==
  /\ \E l \in Logins, answer \in {"approved", "denied"} :
       grant[l] = "asked" /\ grant' = [grant EXCEPT ![l] = answer]
  /\ UNCHANGED <<kind, flows, keys, call, others, history>>

(* A flow expires, or is in the memory of another process than is asked.   *)
Forget ==
  /\ \E l \in Logins : Pending(l) /\ Drop(l)
  /\ UNCHANGED <<kind, grant, keys, call, others, history>>

Login(c) ==
  \/ DeleteFlows(c) \/ InsertFlow(c)
  \/ Callback(c) \/ PasteBare(c) \/ Consume(c) \/ Exchange(c)
  \/ Poll(c) \/ Answer(c)
  \/ ChooseLabel(c) \/ LookUp(c) \/ StoreKey(c) \/ Discover(c) \/ Reply(c)
  \/ Refresh(c)

Logout(c) ==
  \/ Revoke(c) \/ HandBack(c) \/ FindDoomed(c) \/ FindActive(c)
  \/ DeleteKeys(c) \/ DeactivateKeys(c)

Next ==
  \/ StartInMemory \/ Decide \/ Forget
  \/ \E c \in Callers : Login(c) \/ Logout(c) \/ Abandon(c)

Spec == Init /\ [][Next]_vars

-----------------------------------------------------------------------------
(* Properties.                                                             *)

(* Who was told that the sign-in succeeded has an active key with its      *)
(* tokens until a removal takes it: another sign-in gets a label of its    *)
(* own (nextOAuthLabel, "Returns a unique label").  Only a sign-in that    *)
(* chose its label before this one was stored may overwrite it, or a       *)
(* discovery of models that saves an older copy of the key.                *)
KeptSignIn == told \subseteq LoginsOf(rows) \union gone \union overlapped

(* A flow's verifier goes to the provider at most once, although callbacks *)
(* repeat and codes are pasted twice or without their state: two calls     *)
(* never redeem the same flow.  (A bare code may go out twice, each time   *)
(* with another flow's verifier; a device's flow is asked for repeatedly   *)
(* and not meant here.)                                                    *)
RedeemedOnce == \A l \in Logins : sent[l] <= 1

(* No key stays in service with tokens the provider has taken back: the    *)
(* revocation that did it goes on to remove the very keys it handed back,  *)
(* unless it stops half-way or is refused at that point, or a discovery of *)
(* the key's models saves the key again after its removal.                 *)
RevokedNotServed ==
  \A k \in Active(rows) :
    rows[k].login \in revoked =>
      \/ rows[k].login \in kept \union revived
      \/ \E c \in Callers : /\ call[c].at \in Removing
                            /\ call[c].label \in {0, rows[k].label}

(* A key that a revocation removed was handed back before, unless the      *)
(* provider would not, or the key was stored after the keys were listed.   *)
RemovedIsRevoked == kind = "redirect" => gone \subseteq revoked \union spared
=============================================================================
