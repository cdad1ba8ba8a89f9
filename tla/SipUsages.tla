----------------------------- MODULE SipUsages -----------------------------
(***************************************************************************)
(* What one monitor thread of chan_sip.c does besides plain calls: a       *)
(* subscription, a transfer, the calls of a forked INVITE, or the service  *)
(* of call completion.  Each lives in dialogs of its own and shares only   *)
(* the thread with the others, so one of them is there in a behaviour.     *)
(***************************************************************************)
EXTENDS SipSubscription, SipTransfer, SipMatch, SipCompletion

vars == <<subscriptionVars, transferVars, matchVars, completionVars>>

\* One of the four, and nothing of the others.
Init ==
  \E b \in Subscriptions \cup {NoSubscription}, t \in Transfers \cup {NoTransfer},
     k \in Castings \cup {NoCasting}, s \in Services \cup {NoService} :
    /\ \/ <<t, k, s>> = <<NoTransfer, NoCasting, NoService>> \/ <<b, k, s>> = <<NoSubscription, NoCasting, NoService>>
       \/ <<b, t, s>> = <<NoSubscription, NoTransfer, NoService>> \/ <<b, t, k>> = <<NoSubscription, NoTransfer, NoCasting>>
    /\ SubscriptionInit(b) /\ TransferInit(t) /\ MatchInit(k) /\ CompletionInit(s)

Next ==
  \/ SubscriptionNext /\ UNCHANGED <<transferVars, matchVars, completionVars>>
  \/ TransferNext /\ UNCHANGED <<subscriptionVars, matchVars, completionVars>>
  \/ MatchNext /\ UNCHANGED <<subscriptionVars, transferVars, completionVars>>
  \/ CompletionNext /\ UNCHANGED <<subscriptionVars, transferVars, matchVars>>

Spec == Init /\ [][Next]_vars /\ SubscriptionFair /\ TransferFair /\ MatchFair /\ CompletionFair

TypeOK == SubscriptionTypeOK /\ TransferTypeOK /\ MatchTypeOK /\ CompletionTypeOK
=============================================================================
