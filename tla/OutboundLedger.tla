--------------------------- MODULE OutboundLedger ---------------------------
(***************************************************************************)
(* What the chain promises about the outbounds of an inbound, with no word *)
(* on reports, items, periods or the order in which any of it comes: of    *)
(* all that the vaults pay, each payment is entered in the books of its    *)
(* vault at most once; it settles its action, if it is the first to do so, *)
(* or is punished.  ObservedTxOut implements it (OutRefines there).        *)
(***************************************************************************)
EXTENDS Integers

CONSTANTS
    Vault, Action, Funds,
    Payment     \* records: the action a that is paid, or none, and the vault v

VARIABLES
    sent,       \* payments on the external chain
    settled,    \* payments that closed an action
    punished,   \* payments their vault was slashed for
    books       \* vault -> what it holds, as the chain has it

ledgerVars == <<sent, settled, punished, books>>

Init ==
    /\ sent = {} /\ settled = {} /\ punished = {}
    /\ books = [v \in Vault |-> Funds]

Pay(p) ==
    /\ p \notin sent
    /\ sent' = sent \cup {p}
    /\ UNCHANGED <<settled, punished, books>>

\* A payment that is not in the books yet is entered.
Enter(p) ==
    /\ books[p.v] > 0
    /\ books' = [books EXCEPT ![p.v] = @ - 1]
    /\ p \notin settled \cup punished
    /\ UNCHANGED sent

Settle(p) ==
    /\ Enter(p)
    /\ p.a \in Action
    /\ \A q \in settled : q.a # p.a
    /\ settled' = settled \cup {p}
    /\ UNCHANGED punished

Punish(p) ==
    /\ Enter(p)
    /\ punished' = punished \cup {p}
    /\ UNCHANGED settled

\* The pool of the asset is gone, and the asset is struck from the books.
WriteOff ==
    /\ books' = [v \in Vault |-> 0]
    /\ UNCHANGED <<sent, settled, punished>>

Next ==
    \/ \E p \in Payment : Pay(p)
    \/ WriteOff
    \/ \E p \in sent : Settle(p) \/ Punish(p)

Spec == Init /\ [][Next]_ledgerVars
=============================================================================
