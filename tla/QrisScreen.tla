------------------------------ MODULE QrisScreen ------------------------------
(***************************************************************************)
(* Paying a merchant's QRIS code: app/pay/qris/page.tsx with               *)
(* /api/qris/parse, which reads and prices it, and the lock it ends in,    *)
(* priced again by /api/offramp/lock.  A code is scanned in the pay sheet, *)
(* over this page or another, and handed on in sessionStorage.             *)
(***************************************************************************)
EXTENDS Naturals

CONSTANTS
    Merchant,  \* merchants, by the id their code carries
    Dynamic,   \* those whose codes carry an amount
    Lock,      \* presses of Confirm payment
    MaxRates,  \* bound: rates seen
    MaxGlitches

VARIABLES
    payload,   \* saku_qris_payload of the tab
    view,      \* the page: what it read, and the lock it is sending
    stage,     \* useOfframp's phase
    locks,     \* every press: where it is, and whom and at what rate it was priced
    rate,      \* getUsdRate
    glitches

vars == <<payload, view, stage, locks, rate, glitches>>

None == "none"
NoView == [at |-> "away", merchant |-> None, rate |-> 0, typed |-> FALSE, send |-> None]
NoLock == [at |-> "none", merchant |-> None, shown |-> None, priced |-> 0, paid |-> 0]

TypeOK ==
    /\ payload \in Merchant \cup {None}
    /\ view \in [at : {"away", "loading", "ready", "error"}, merchant : Merchant \cup {None}, rate : 0 .. MaxRates,
                 typed : BOOLEAN, send : Lock \cup {None}]
    /\ stage \in {"idle", "busy", "done", "needs-refund", "failed"}
    /\ locks \in [Lock -> [at : {"none", "sending", "posting", "filed", "settled", "refundable", "over"},
                           merchant : Merchant \cup {None}, shown : Merchant \cup {None},
                           priced : 0 .. MaxRates, paid : 0 .. MaxRates]]
    /\ rate \in 1 .. MaxRates /\ glitches \in 0 .. MaxGlitches

Init ==
    /\ payload = None /\ view = NoView /\ stage = "idle"
    /\ locks = [k \in Lock |-> NoLock]
    /\ rate = 1 /\ glitches = 0

Glitch == glitches < MaxGlitches /\ glitches' = glitches + 1

\* The upstream's next rate, or the fallback when it is down.
RateMoves ==
    /\ rate < MaxRates /\ rate' = rate + 1
    /\ UNCHANGED <<payload, view, stage, locks, glitches>>

\* The push to a page that is already there mounts nothing.
Scan(m) ==
    /\ payload' = m
    /\ view' = IF view.at = "away" THEN [NoView EXCEPT !.at = "loading", !.merchant = m] ELSE view
    /\ UNCHANGED <<stage, locks, rate, glitches>>

\* Back, home or a reload: the page mounts again, on the payload last scanned.
Leave ==
    /\ view.at # "away"
    /\ view' \in {NoView, [NoView EXCEPT !.at = "loading", !.merchant = payload]}
    /\ stage' = "idle"
    /\ UNCHANGED <<payload, locks, rate, glitches>>

\* parseQris and, for a code with an amount, the price of it.
Parsed ==
    /\ view.at = "loading"
    /\ view' = [view EXCEPT !.at = "ready", !.rate = rate]
    /\ UNCHANGED <<payload, stage, locks, rate, glitches>>

\* Not a QRIS, its checksum fails, or no answer.
ParseFails ==
    /\ view.at = "loading"
    /\ Glitch
    /\ view' = [view EXCEPT !.at = "error"]
    /\ UNCHANGED <<payload, stage, locks, rate>>

\* "A static merchant code carries no amount, so the payer enters one."
TypeAmount ==
    /\ view.at = "ready" /\ view.merchant \notin Dynamic /\ stage \in {"idle", "failed", "busy"}
    /\ view' = [view EXCEPT !.typed = ~@]
    /\ UNCHANGED <<payload, stage, locks, rate, glitches>>

Priced == view.merchant \in Dynamic \/ view.typed

\* The merchant's id, hashed, is the recipient of the lock.
LastScanned == payload
MerchantRef == view.merchant

PressConfirm(k) ==
    /\ view.at = "ready" /\ Priced
    /\ stage \in {"idle", "failed"} /\ locks[k] = NoLock
    /\ locks' = [locks EXCEPT ![k] = [NoLock EXCEPT !.at = "sending", !.merchant = MerchantRef,
                                                    !.shown = view.merchant, !.priced = view.rate]]
    /\ view' = [view EXCEPT !.send = k]
    /\ stage' = "busy"
    /\ UNCHANGED <<payload, rate, glitches>>

\* The send of a page that was left goes on without it.
Says(k, s) == stage' = IF view.send = k THEN s ELSE stage

\* Approved, locked and mined.
LockMined(k) ==
    /\ locks[k].at = "sending"
    /\ locks' = [locks EXCEPT ![k].at = "posting"]
    /\ UNCHANGED <<payload, view, stage, rate, glitches>>

SendFails(k) ==
    /\ locks[k].at \in {"sending", "posting"}
    /\ Glitch
    /\ locks' = [locks EXCEPT ![k].at = "over"]
    /\ Says(k, "failed")
    /\ UNCHANGED <<payload, view, rate>>

\* POST /api/offramp/lock prices the payout at the rate of now.
File(k) ==
    /\ locks[k].at = "posting"
    /\ locks' = [locks EXCEPT ![k].at = "filed", ![k].paid = rate]
    /\ UNCHANGED <<payload, view, stage, rate, glitches>>

Settle(k) ==
    /\ locks[k].at = "filed"
    /\ locks' = [locks EXCEPT ![k].at = "settled"]
    /\ Says(k, "done")
    /\ UNCHANGED <<payload, view, rate, glitches>>

Expire(k) ==
    /\ locks[k].at = "filed"
    /\ locks' = [locks EXCEPT ![k].at = "refundable"]
    /\ Says(k, "needs-refund")
    /\ UNCHANGED <<payload, view, rate, glitches>>

Next ==
    \/ RateMoves \/ Leave \/ Parsed \/ ParseFails \/ TypeAmount
    \/ \E m \in Merchant : Scan(m)
    \/ \E k \in Lock : PressConfirm(k) \/ LockMined(k) \/ SendFails(k) \/ File(k) \/ Settle(k) \/ Expire(k)

Spec == Init /\ [][Next]_vars

-----------------------------------------------------------------------------
(* Properties *)

\* A second code scanned while the page is up changes neither what it shows nor whom it pays.
PaysTheMerchantShown == \A k \in Lock : locks[k].at # "none" => locks[k].merchant = locks[k].shown

\* "The merchant must receive the full amount."
MerchantGetsTheBill ==
    \A k \in Lock : locks[k].at = "settled" /\ locks[k].merchant \in Dynamic => locks[k].paid = locks[k].priced
=============================================================================
