----------------------- MODULE SignAndBroadcastProofs -----------------------
(***************************************************************************)
(* For any number of routines, faults and nonces: an outbound is on the    *)
(* chain at most once, and is not signed again once the signer cache has   *)
(* it, as long as no routine was abandoned, started from an outdated list  *)
(* or lost with a signature that nothing records.                          *)
(***************************************************************************)
EXTENDS SignAndBroadcast, FiniteSetTheorems, WellFoundedInduction, TLAPS

-----------------------------------------------------------------------------
(* The inductive invariant *)

Routine == [outer : {"idle", "run"},
            inner : {"check", "cache", "nonce", "sign", "store", "send", "mark", "done"},
            entry : Entry \cup {None}, nonce : Nonces \cup {None}, res : {"ok", "err", "round7"}]

\* A routine has its copy of the item, and a nonce from GetNonce on.
HasEntry(x) ==
    \/ x = Blank
    \/ /\ x.entry \in Entry
       /\ x.inner \in {"sign", "store", "send"} => x.nonce \in Nonces

\* The nonces whose transactions of the item can still land, or have.
Tried == sigs \cup landed

\* A recorded nonce is one that was tried, or it is of no use any more.
Known(n) == n \in Tried \/ n < nonce

\* What holds of a live routine while nothing is exposed: its copy of the item is
\* the stored one, and each step has what the steps before it established.
Sound(x) ==
    /\ x.outer = "run" /\ store \in Entry /\ x.entry = store
    /\ x.inner \in {"cache", "nonce", "sign", "store"} => store.SignedTx = None
    /\ x.inner \in {"nonce", "sign", "store"} => ~cached
    /\ (x.inner \in {"sign", "store"} \/ x.res = "round7") /\ store.Checkpoint # None =>
         x.nonce = store.Checkpoint
    /\ x.inner = "store" => Known(x.nonce)
    /\ x.inner = "send" => x.nonce = store.SignedTx
    /\ x.res = "round7" =>
         x.inner = "done" /\ store.SignedTx = None /\ x.nonce \in Nonces /\ ~cached

\* The routine alone knows of the signature with nonce c.
Carries(x, c) == (x.inner = "store" \/ x.res = "round7") /\ x.nonce = c

\* Every further attempt uses the nonce c or does not sign.
BoundTo(c) ==
    \/ cached \/ store = None
    \/ store.SignedTx = c
    \/ store.SignedTx = None /\ store.Checkpoint = c
    \/ \E r \in Routines : Carries(rt[r], c)

OneRoutine ==
    /\ \A r \in Routines : rt[r] = Blank \/ (Sound(rt[r]) /\ lock)
    /\ \A r, q \in Routines : rt[r] # Blank /\ rt[q] # Blank => r = q

OneNonce ==
    /\ \A c, d \in Tried : c = d
    /\ \A c \in Tried : BoundTo(c)
    /\ store # None /\ store.SignedTx # None => Known(store.SignedTx)

SignInv ==
    /\ TypeOK
    /\ \A r \in Routines : HasEntry(rt[r])
    /\ ~exposed => OneRoutine /\ OneNonce

-----------------------------------------------------------------------------
(* Records and sets *)

\* What the store holds of an item.
LEMMA EntryType ==
    /\ Fresh \in Entry /\ None \notin Nonces /\ None \notin Entry
    /\ \A e \in Entry : /\ e.SignedTx \in Nonces \cup {None} /\ e.Checkpoint \in Nonces \cup {None}
                        /\ e.round7 \in BOOLEAN
BY SignAssumption DEF Entry, Fresh

\* A routine slot that is not in use.
LEMMA BlankType ==
    /\ Blank \in Routine /\ Blank.outer = "idle" /\ Blank.inner = "done"
    /\ Blank.res = "err" /\ Blank.nonce = None
BY DEF Routine, Blank

\* Nonces are bounded numbers.
LEMMA NoncesType == \A n \in Nonces : n \in Nat /\ n <= MaxNonce
BY SignAssumption DEF Nonces

\* Min of routine names is one of them.
LEMMA MinIsMember ==
    ASSUME NEW S, S \subseteq Nat, S # {}
    PROVE  Min(S) \in S
<1>1. IsWellFoundedOn(OpToRel(<, Nat), Nat)
    BY NatLessThanWellFounded
<1>2. PICK x \in S : \A y \in S : ~(<<y, x>> \in OpToRel(<, Nat))
    BY <1>1, WFMin
<1>3. \A y \in S : y < x => <<y, x>> \in OpToRel(<, Nat)
    BY DEF OpToRel
<1>4. \A y \in S : ~(y < x)
    BY <1>2, <1>3
<1>5. \A y \in S : x <= y
    BY <1>4
<1> QED
    BY <1>5 DEF Min

\* A step changes one routine, which is blank once both its parts are done.
LEMMA SetRoutineEffect ==
    ASSUME rt \in [Routines -> Routine], NEW r \in Routines, NEW x \in Routine, SetRoutine(r, x)
    PROVE  /\ rt' \in [Routines -> Routine]
           /\ rt'[r] = IF x.outer = "idle" /\ x.inner = "done" THEN Blank ELSE x
           /\ \A q \in Routines : q # r => rt'[q] = rt[q]
BY BlankType DEF SetRoutine

-----------------------------------------------------------------------------
(* What a live routine may rely on *)

\* What the invariant says of a routine in flight: unexposed, it is alone and holds the lock.
LEMMA LiveRoutine ==
    ASSUME SignInv, NEW r \in Routines, rt[r].inner # "done" \/ rt[r].outer = "run"
    PROVE  /\ rt \in [Routines -> Routine] /\ rt[r] \in Routine /\ rt[r] # Blank
           /\ rt[r].entry \in Entry
           /\ rt[r].inner \in {"sign", "store", "send"} => rt[r].nonce \in Nonces
           /\ ~exposed => /\ Sound(rt[r]) /\ lock /\ OneNonce
                          /\ \A q \in Routines : q # r => rt[q] = Blank
<1>1. rt \in [Routines -> Routine]
    BY DEF SignInv, TypeOK, Routine
<1>2. rt[r] # Blank
    BY BlankType
<1> QED
    BY <1>1, <1>2 DEF SignInv, HasEntry, OneRoutine

\* A step of the inner goroutine: the type of the state apart, it has to show that
\* the routine stays sound and the item bound to one nonce.
LEMMA InnerStep ==
    ASSUME SignInv, NEW r \in Routines, rt[r].inner # "done", UNCHANGED unSign,
           NEW y \in Routine, y.entry \in Entry, y.outer = rt[r].outer, SetRoutine(r, y),
           y.inner \in {"sign", "store", "send"} => y.nonce \in Nonces,
           store' \in Entry \cup {None}, cached' \in BOOLEAN,
           nonce' \in Nonces, sigs' \subseteq Nonces, landed' \subseteq Nonces,
           ~exposed /\ rt'[r] = y => Sound(rt[r])' /\ OneNonce'
    PROVE  SignInv'
<1>1. /\ rt \in [Routines -> Routine] /\ rt[r] # Blank
      /\ ~exposed => Sound(rt[r]) /\ lock /\ \A q \in Routines : q # r => rt[q] = Blank
    BY LiveRoutine
<1>2. /\ rt' \in [Routines -> Routine]
      /\ rt'[r] = IF y.outer = "idle" /\ y.inner = "done" THEN Blank ELSE y
      /\ \A q \in Routines : q # r => rt'[q] = rt[q]
    BY <1>1, SetRoutineEffect
<1>3. TypeOK'
    BY <1>2 DEF SignInv, TypeOK, unSign, Routine
<1>4. \A q \in Routines : HasEntry(rt[q])'
    BY <1>2 DEF SignInv, HasEntry
<1>5. ~exposed => OneRoutine' /\ OneNonce'
    <2> SUFFICES ASSUME ~exposed PROVE OneRoutine' /\ OneNonce'
        OBVIOUS
    <2>1. rt'[r] = y
        BY <1>1, <1>2 DEF Sound
    <2>2. Sound(rt[r])' /\ OneNonce' /\ lock'
        BY <1>1, <2>1 DEF unSign
    <2>3. \A q \in Routines : q # r => rt'[q] = Blank
        BY <1>1, <1>2
    <2> QED
        BY <2>2, <2>3 DEF OneRoutine
<1> QED
    BY <1>3, <1>4, <1>5 DEF SignInv, unSign

\* A step that leaves the records of the item and of the chain as they are keeps
\* it bound, unless the routine carried a nonce that it drops.
LEMMA BoundStays ==
    ASSUME OneNonce, NEW r \in Routines,
           UNCHANGED <<store, cached, chainVars>>,
           \A q \in Routines : q # r => rt'[q] = rt[q],
           \A c : Carries(rt[r], c) => Carries(rt[r], c)'
    PROVE  OneNonce'
<1>1. Tried' = Tried /\ \A n : Known(n)' = Known(n)
    BY DEF Tried, Known, chainVars
<1>2. \A q \in Routines : \A c : Carries(rt[q], c) => Carries(rt[q], c)'
    BY DEF Carries
<1>3. \A c : BoundTo(c) => BoundTo(c)'
    BY <1>2 DEF BoundTo
<1> QED
    BY <1>1, <1>3 DEF OneNonce

-----------------------------------------------------------------------------
(* The inner goroutine *)

\* The steps that neither sign nor store nor send: the routine goes on to pc, or
\* returns, with a nonce n.
LEMMA QuietInnerStep ==
    ASSUME SignInv, NEW r \in Routines, rt[r].inner \in {"check", "cache", "nonce", "sign"},
           NEW pc \in {"cache", "nonce", "sign", "send", "done"}, NEW res \in {"ok", "err", "round7"},
           res = "round7" => rt[r].res = "round7",
           NEW n \in Nonces \cup {None},
           UNCHANGED <<unSign, store, cached, chainVars>>,
           SetRoutine(r, [rt[r] EXCEPT !.inner = pc, !.nonce = n, !.res = res]),
           pc \in {"sign", "send"} => n \in Nonces,
           pc = "cache" => rt[r].entry.SignedTx = None,
           pc = "nonce" => rt[r].inner = "cache" /\ ~cached,
           pc = "sign" => rt[r].inner = "nonce" /\ (rt[r].entry.Checkpoint # None => n = rt[r].entry.Checkpoint),
           pc = "send" => n = rt[r].entry.SignedTx
    PROVE  SignInv'
<1> DEFINE y == [rt[r] EXCEPT !.inner = pc, !.nonce = n, !.res = res]
<1>1. /\ rt \in [Routines -> Routine] /\ rt[r] \in Routine /\ rt[r].entry \in Entry
      /\ ~exposed => Sound(rt[r]) /\ OneNonce
    BY LiveRoutine
<1>2. /\ y \in Routine /\ y.entry = rt[r].entry /\ y.outer = rt[r].outer
      /\ y.inner = pc /\ y.nonce = n /\ y.res = res
    BY <1>1 DEF Routine
<1> HIDE DEF y
<1>3. SetRoutine(r, y)
    BY DEF y
<1>4. ASSUME ~exposed, rt'[r] = y PROVE Sound(rt[r])' /\ OneNonce'
    <2>1. Sound(rt[r]) /\ OneNonce
        BY <1>1, <1>4
    <2>2. Sound(rt[r])'
        BY <1>2, <1>4, <2>1 DEF Sound
    <2>3. \A c : ~Carries(rt[r], c)
        BY <2>1 DEF Carries, Sound
    <2>4. \A q \in Routines : q # r => rt'[q] = rt[q]
        BY <1>1, <1>2, <1>3, SetRoutineEffect
    <2>5. OneNonce'
        BY <2>1, <2>3, <2>4, BoundStays
    <2> QED
        BY <2>2, <2>5
<1>5. /\ store' \in Entry \cup {None} /\ cached' \in BOOLEAN
      /\ nonce' \in Nonces /\ sigs' \subseteq Nonces /\ landed' \subseteq Nonces
    BY DEF SignInv, TypeOK, chainVars
<1> QED
    BY <1>1, <1>2, <1>3, <1>4, <1>5, InnerStep

\* The checks before signing, and a signing that fails.
LEMMA ChecksKeepInv ==
    ASSUME SignInv, NEW r \in Routines,
           CheckFails(r) \/ CheckPasses(r) \/ HasSigned(r) \/ GetNonce(r) \/ SignFails(r)
    PROVE  SignInv'
<1> USE EntryType
<1> DEFINE Step(pc, n, res) == SetRoutine(r, [rt[r] EXCEPT !.inner = pc, !.nonce = n, !.res = res])
<1>0. /\ rt[r] \in Routine /\ rt[r].res \in {"ok", "err", "round7"} /\ rt[r].nonce \in Nonces \cup {None}
      /\ rt[r].inner # "done" => rt[r].entry \in Entry
      /\ nonce \in Nonces
    <2>1. rt \in [Routines -> Routine] /\ nonce \in Nonces
        BY DEF SignInv, TypeOK, Routine
    <2>2. rt[r] \in Routine
        BY <2>1
    <2>3. rt[r].inner # "done" => rt[r].entry \in Entry
        BY LiveRoutine
    <2> QED
        BY <2>1, <2>2, <2>3 DEF Routine
<1>1. CASE CheckFails(r)
    <2>1. PICK res \in {"ok", "err"} : Step("done", None, res)
        BY <1>1 DEF CheckFails, Returns
    <2> QED
        BY <1>1, <2>1, QuietInnerStep, ZenonT(60) DEF CheckFails
<1>2. CASE SignFails(r)
    <2>1. Step("done", None, "err")
        BY <1>2 DEF SignFails, Returns
    <2> QED
        BY <1>2, <2>1, QuietInnerStep, ZenonT(60) DEF SignFails
<1>3. CASE CheckPasses(r) /\ rt[r].entry.SignedTx # None
    <2>1. [rt[r] EXCEPT !.inner = "send", !.nonce = rt[r].entry.SignedTx]
            = [rt[r] EXCEPT !.inner = "send", !.nonce = rt[r].entry.SignedTx, !.res = rt[r].res]
        BY <1>0 DEF Routine
    <2>2. Step("send", rt[r].entry.SignedTx, rt[r].res)
        BY <1>3, <2>1 DEF CheckPasses
    <2>3. rt[r].entry.SignedTx \in Nonces
        BY <1>0, <1>3 DEF CheckPasses
    <2> QED
        BY <1>0, <1>3, <2>2, <2>3, QuietInnerStep, ZenonT(60) DEF CheckPasses
<1>4. CASE CheckPasses(r) /\ rt[r].entry.SignedTx = None
    <2>1. [rt[r] EXCEPT !.inner = "cache"]
            = [rt[r] EXCEPT !.inner = "cache", !.nonce = rt[r].nonce, !.res = rt[r].res]
        BY <1>0 DEF Routine
    <2>2. Step("cache", rt[r].nonce, rt[r].res)
        BY <1>4, <2>1 DEF CheckPasses
    <2>3. rt[r].inner = "check" /\ UNCHANGED <<unSign, store, cached, chainVars>>
        BY <1>4 DEF CheckPasses
    <2>4. PICK n \in Nonces \cup {None}, res \in {"ok", "err", "round7"} :
              /\ res = "round7" => rt[r].res = "round7"
              /\ SetRoutine(r, [rt[r] EXCEPT !.inner = "cache", !.nonce = n, !.res = res])
        BY <1>0, <2>2, ZenonT(60)
    <2> QED
        BY <1>4, <2>3, <2>4, QuietInnerStep, ZenonT(60)
<1>5. CASE HasSigned(r) /\ cached
    <2>1. Step("done", None, "err")
        BY <1>5 DEF HasSigned, Returns
    <2> QED
        BY <1>5, <2>1, QuietInnerStep, ZenonT(60) DEF HasSigned
<1>6. CASE HasSigned(r) /\ ~cached
    <2>1. [rt[r] EXCEPT !.inner = "nonce"]
            = [rt[r] EXCEPT !.inner = "nonce", !.nonce = rt[r].nonce, !.res = rt[r].res]
        BY <1>0 DEF Routine
    <2>2. Step("nonce", rt[r].nonce, rt[r].res)
        BY <1>6, <2>1 DEF HasSigned
    <2>3. rt[r].inner = "cache" /\ UNCHANGED <<unSign, store, cached, chainVars>>
        BY <1>6 DEF HasSigned
    <2>4. PICK n \in Nonces \cup {None}, res \in {"ok", "err", "round7"} :
              /\ res = "round7" => rt[r].res = "round7"
              /\ SetRoutine(r, [rt[r] EXCEPT !.inner = "nonce", !.nonce = n, !.res = res])
        BY <1>0, <2>2, ZenonT(60)
    <2> QED
        BY <1>6, <2>3, <2>4, QuietInnerStep, ZenonT(60)
<1>7. CASE GetNonce(r)
    <2> DEFINE n == IF rt[r].entry.Checkpoint # None THEN rt[r].entry.Checkpoint ELSE nonce
    <2>1. [rt[r] EXCEPT !.inner = "sign", !.nonce = n]
            = [rt[r] EXCEPT !.inner = "sign", !.nonce = n, !.res = rt[r].res]
        BY <1>0 DEF Routine
    <2>2. Step("sign", n, rt[r].res)
        BY <1>7, <2>1 DEF GetNonce
    <2>3. n \in Nonces /\ (rt[r].entry.Checkpoint # None => n = rt[r].entry.Checkpoint)
        BY <1>0, <1>7 DEF GetNonce
    <2> HIDE DEF n
    <2> QED
        BY <1>0, <1>7, <2>2, <2>3, QuietInnerStep DEF GetNonce
<1> QED
    BY <1>1, <1>2, <1>3, <1>4, <1>5, <1>6, <1>7

\* A signature with the nonce of a sound routine keeps the item bound to one nonce:
\* an earlier one would have been recorded, and used.
LEMMA SignaturesAgree ==
    ASSUME SignInv, NEW r \in Routines, rt[r].inner = "sign", NEW n, n = rt[r].nonce,
           NewSignature(n), UNCHANGED <<nonce, landed>>
    PROVE  /\ sigs' \subseteq Nonces
           /\ ~exposed => Known(n)' /\ \A c \in Tried' : c = n
<1>0. n \in Nonces /\ sigs \subseteq Nonces /\ nonce \in Nonces
    BY LiveRoutine DEF SignInv, TypeOK
<1>1. sigs' \subseteq Nonces
    BY <1>0 DEF NewSignature
<1>2. ASSUME ~exposed PROVE Known(n)' /\ \A c \in Tried' : c = n
    <2>1. /\ Sound(rt[r]) /\ OneNonce
          /\ \A q \in Routines : q # r => rt[q] = Blank
        BY <1>2, LiveRoutine
    <2>2. \A c \in Tried : c \in Nonces /\ BoundTo(c)
        BY <2>1 DEF OneNonce, Tried, SignInv, TypeOK
    <2>3. \A q \in Routines : \A c : ~Carries(rt[q], c)
        BY <2>1, BlankType DEF Carries, Sound
    <2>4. \A c \in Tried : c = n
        BY <2>1, <2>2, <2>3, EntryType DEF BoundTo, Sound
    <2>5. \A c \in Tried' : c = n
        BY <2>4 DEF Tried, NewSignature
    <2>6. Known(n)'
        BY <1>0, NoncesType DEF Known, Tried, NewSignature
    <2> QED
        BY <2>5, <2>6
<1> QED
    BY <1>1, <1>2

\* A keysign, complete or stopped in round 7, binds the item to its nonce.
LEMMA SignKeepsInv ==
    ASSUME SignInv, NEW r \in Routines, Sign(r) \/ SignRound7(r)
    PROVE  SignInv'
<1> USE EntryType
<1>1. /\ rt \in [Routines -> Routine] /\ rt[r] \in Routine /\ rt[r].entry \in Entry
      /\ rt[r].inner = "sign" /\ rt[r].nonce \in Nonces
      /\ ~exposed => Sound(rt[r]) /\ OneNonce
    BY LiveRoutine DEF Sign, SignRound7
<1>2. PICK n \in Nonces : n = rt[r].nonce
    BY <1>1
<1>3. NewSignature(n) /\ UNCHANGED <<unSign, store, cached, nonce, landed>>
    BY <1>2 DEF Sign, SignRound7
<1>4. sigs' \subseteq Nonces /\ (~exposed => Known(n)' /\ \A c \in Tried' : c = n)
    BY <1>1, <1>2, <1>3, SignaturesAgree
<1>5. PICK y \in Routine :
          /\ SetRoutine(r, y) /\ y.entry = rt[r].entry /\ y.outer = rt[r].outer /\ y.nonce = n
          /\ \/ y.inner = "store" /\ y.res = rt[r].res
             \/ y.inner = "done" /\ y.res = "round7"
    <2>1. CASE Sign(r)
        <3> DEFINE y == [rt[r] EXCEPT !.inner = "store"]
        <3>1. y \in Routine /\ y.entry = rt[r].entry /\ y.outer = rt[r].outer /\ y.nonce = n
              /\ y.inner = "store" /\ y.res = rt[r].res
            BY <1>1, <1>2 DEF Routine
        <3> QED
            BY <2>1, <3>1 DEF Sign
    <2>2. CASE SignRound7(r)
        <3> DEFINE y == [rt[r] EXCEPT !.inner = "done", !.nonce = rt[r].nonce, !.res = "round7"]
        <3>1. y \in Routine /\ y.entry = rt[r].entry /\ y.outer = rt[r].outer /\ y.nonce = n
              /\ y.inner = "done" /\ y.res = "round7"
            BY <1>1, <1>2 DEF Routine
        <3> QED
            BY <2>2, <3>1 DEF SignRound7, Returns
    <2> QED
        BY <2>1, <2>2
<1>6. ASSUME ~exposed, rt'[r] = y PROVE Sound(rt[r])' /\ OneNonce'
    <2>1. Sound(rt[r]) /\ OneNonce
        BY <1>1, <1>6
    <2>2. Sound(rt[r])'
        BY <1>1, <1>2, <1>3, <1>4, <1>5, <1>6, <2>1 DEF Sound
    <2>3. Carries(rt[r], n)'
        BY <1>5, <1>6 DEF Carries
    <2>4. BoundTo(n)'
        BY <2>3 DEF BoundTo
    <2>5. store # None /\ store.SignedTx = None
        BY <1>1, <2>1 DEF Sound
    <2> QED
        BY <1>3, <1>4, <1>6, <2>2, <2>4, <2>5 DEF OneNonce
<1>7. /\ store' \in Entry \cup {None} /\ cached' \in BOOLEAN /\ nonce' \in Nonces /\ landed' \subseteq Nonces
    BY <1>3 DEF SignInv, TypeOK
<1> QED
    BY <1>1, <1>2, <1>3, <1>4, <1>5, <1>6, <1>7, InnerStep

\* The signed transaction is stored before it is broadcast.
LEMMA StoreSignedKeepsInv ==
    ASSUME SignInv, NEW r \in Routines, StoreSigned(r)
    PROVE  SignInv'
<1> USE EntryType
<1>1. /\ rt \in [Routines -> Routine] /\ rt[r] \in Routine /\ rt[r].entry \in Entry
      /\ rt[r].inner = "store" /\ rt[r].nonce \in Nonces
      /\ ~exposed => Sound(rt[r]) /\ OneNonce
      /\ ~exposed => \A q \in Routines : q # r => rt[q] = Blank
    BY LiveRoutine DEF StoreSigned
<1>2. PICK e : e = [rt[r].entry EXCEPT !.SignedTx = rt[r].nonce, !.Checkpoint = None]
    OBVIOUS
<1>3. e \in Entry /\ e.SignedTx = rt[r].nonce
    BY <1>1, <1>2 DEF Entry
<1>4. PICK y : y = [rt[r] EXCEPT !.inner = "send", !.entry = e]
    OBVIOUS
<1>5. /\ y \in Routine /\ y.entry = e /\ y.outer = rt[r].outer /\ y.inner = "send"
      /\ y.nonce = rt[r].nonce /\ y.res = rt[r].res
    BY <1>1, <1>3, <1>4 DEF Routine
<1>6. store' = e /\ SetRoutine(r, y) /\ UNCHANGED <<unSign, cached, chainVars>>
    BY <1>2, <1>4 DEF StoreSigned
<1>7. ASSUME ~exposed, rt'[r] = y PROVE Sound(rt[r])' /\ OneNonce'
    <2>1. Sound(rt[r]) /\ OneNonce /\ \A q \in Routines : q # r => rt[q] = Blank
        BY <1>1, <1>7
    <2>2. Sound(rt[r])'
        BY <1>1, <1>3, <1>5, <1>6, <1>7, <2>1 DEF Sound
    <2>3. Tried' = Tried /\ \A n : Known(n)' = Known(n)
        BY <1>6 DEF Tried, Known, chainVars
    <2>4. \A c \in Tried : c = rt[r].nonce
        <3>1. \A c \in Tried : c \in Nonces /\ BoundTo(c)
            BY <2>1 DEF OneNonce, Tried, SignInv, TypeOK
        <3>2. \A q \in Routines : \A c \in Nonces : Carries(rt[q], c) => c = rt[r].nonce
            BY <2>1, BlankType DEF Carries
        <3> QED
            BY <1>1, <2>1, <3>1, <3>2 DEF BoundTo, Sound
    <2>5. \A c \in Tried : BoundTo(c)'
        BY <1>3, <1>6, <2>4 DEF BoundTo
    <2>6. Known(e.SignedTx)
        BY <1>1, <1>3, <2>1 DEF Sound
    <2>7. OneNonce'
        BY <1>6, <2>1, <2>3, <2>5, <2>6 DEF OneNonce
    <2> QED
        BY <2>2, <2>7
<1>8. /\ store' \in Entry \cup {None} /\ cached' \in BOOLEAN
      /\ nonce' \in Nonces /\ sigs' \subseteq Nonces /\ landed' \subseteq Nonces
    BY <1>3, <1>6 DEF SignInv, TypeOK, chainVars
<1> QED
    BY <1>1, <1>3, <1>5, <1>6, <1>7, <1>8, InnerStep

\* The chain includes a transaction that was tried before, or nothing of the item.
LEMMA LandEffect ==
    ASSUME SignInv, NEW n \in Nonces, Land(n) \/ UNCHANGED chainVars
    PROVE  /\ nonce' \in Nonces /\ sigs' \subseteq Nonces /\ landed' \subseteq Nonces
           /\ Known(n) => Tried' = Tried /\ \A m \in Nonces : Known(m) => Known(m)'
<1>1. nonce \in Nonces /\ sigs \subseteq Nonces /\ landed \subseteq Nonces
    BY DEF SignInv, TypeOK
<1>2. CASE UNCHANGED chainVars
    BY <1>1, <1>2 DEF chainVars, Known, Tried
<1>3. CASE Land(n)
    <2>1. nonce' = nonce + 1 /\ nonce' \in Nonces /\ n = nonce
        BY <1>1, <1>3, SignAssumption DEF Land, Nonces
    <2>2. sigs' \subseteq Nonces /\ landed' \subseteq Nonces
        BY <1>1, <1>3 DEF Land
    <2>3. ASSUME Known(n) PROVE Tried' = Tried
        <3>1. n \in Tried
            BY <2>1, <2>3, NoncesType DEF Known
        <3> QED
            BY <1>3, <3>1 DEF Tried, Land
    <2>4. ASSUME Known(n), NEW m \in Nonces, Known(m) PROVE Known(m)'
        BY <1>1, <2>1, <2>3, <2>4, NoncesType DEF Known
    <2> QED
        BY <2>1, <2>2, <2>3, <2>4
<1> QED
    BY <1>2, <1>3

\* The broadcast: the chain takes a transaction whose nonce is free.
LEMMA SendKeepsInv ==
    ASSUME SignInv, NEW r \in Routines, Send(r)
    PROVE  SignInv'
<1> USE EntryType
<1>1. /\ rt \in [Routines -> Routine] /\ rt[r] \in Routine /\ rt[r].entry \in Entry
      /\ rt[r].inner = "send" /\ rt[r].nonce \in Nonces
      /\ ~exposed => Sound(rt[r]) /\ OneNonce
      /\ ~exposed => \A q \in Routines : q # r => rt[q] = Blank
    BY LiveRoutine DEF Send
<1>2. PICK n \in Nonces : n = rt[r].nonce
    BY <1>1
<1>3. Land(n) \/ UNCHANGED chainVars
    BY <1>2 DEF Send
<1>4. PICK y : y = [rt[r] EXCEPT !.inner = "mark"]
    OBVIOUS
<1>5. /\ y \in Routine /\ y.entry = rt[r].entry /\ y.outer = rt[r].outer /\ y.inner = "mark"
      /\ y.res = rt[r].res
    BY <1>1, <1>4 DEF Routine
<1>6. SetRoutine(r, y) /\ UNCHANGED <<unSign, store, cached>>
    BY <1>4 DEF Send
<1>7. /\ nonce' \in Nonces /\ sigs' \subseteq Nonces /\ landed' \subseteq Nonces
      /\ Known(n) => Tried' = Tried /\ \A m \in Nonces : Known(m) => Known(m)'
    BY <1>3, LandEffect
<1>8. ASSUME ~exposed, rt'[r] = y PROVE Sound(rt[r])' /\ OneNonce'
    <2>1. Sound(rt[r]) /\ OneNonce
        BY <1>1, <1>8
    <2>2. Sound(rt[r])'
        BY <1>1, <1>5, <1>6, <1>8, <2>1 DEF Sound
    <2>3. store \in Entry /\ store.SignedTx = n /\ Known(n)
        BY <1>1, <1>2, <2>1 DEF Sound, OneNonce
    <2>4. Tried' = Tried /\ Known(n)'
        BY <1>7, <2>3
    <2>5. \A c \in Tried : BoundTo(c)'
        <3>1. \A q \in Routines : \A c : ~Carries(rt[q], c)
            BY <1>1, <1>8, <2>1, BlankType DEF Carries, Sound
        <3>2. \A c \in Tried : BoundTo(c)
            BY <2>1 DEF OneNonce
        <3> QED
            BY <1>6, <3>1, <3>2 DEF BoundTo
    <2>6. OneNonce'
        BY <1>6, <2>1, <2>3, <2>4, <2>5 DEF OneNonce
    <2> QED
        BY <2>2, <2>6
<1>9. store' \in Entry \cup {None} /\ cached' \in BOOLEAN
    BY <1>6 DEF SignInv, TypeOK
<1> QED
    BY <1>1, <1>5, <1>6, <1>7, <1>8, <1>9, InnerStep

\* The cache is written after the broadcast.
LEMMA SetSignedKeepsInv ==
    ASSUME SignInv, NEW r \in Routines, SetSigned(r)
    PROVE  SignInv'
<1> USE EntryType
<1>1. /\ rt \in [Routines -> Routine] /\ rt[r] \in Routine /\ rt[r].entry \in Entry
      /\ rt[r].inner = "mark"
      /\ ~exposed => Sound(rt[r]) /\ OneNonce
    BY LiveRoutine DEF SetSigned
<1>2. PICK y : y = [rt[r] EXCEPT !.inner = "done", !.nonce = None, !.res = "ok"]
    OBVIOUS
<1>3. /\ y \in Routine /\ y.entry = rt[r].entry /\ y.outer = rt[r].outer
      /\ y.inner = "done" /\ y.res = "ok"
    BY <1>1, <1>2 DEF Routine
<1>4. SetRoutine(r, y) /\ cached' = TRUE /\ UNCHANGED <<unSign, store, chainVars>>
    BY <1>2 DEF SetSigned, Returns
<1>5. ASSUME ~exposed, rt'[r] = y PROVE Sound(rt[r])' /\ OneNonce'
    <2>1. Sound(rt[r])'
        BY <1>1, <1>3, <1>4, <1>5 DEF Sound
    <2>2. Tried' = Tried /\ \A n : Known(n)' = Known(n)
        BY <1>4 DEF Tried, Known, chainVars
    <2>3. \A c \in Tried : BoundTo(c)'
        BY <1>4 DEF BoundTo
    <2> QED
        BY <1>1, <1>4, <1>5, <2>1, <2>2, <2>3 DEF OneNonce
<1>6. /\ store' \in Entry \cup {None} /\ cached' \in BOOLEAN
      /\ nonce' \in Nonces /\ sigs' \subseteq Nonces /\ landed' \subseteq Nonces
    BY <1>4 DEF SignInv, TypeOK, chainVars
<1> QED
    BY <1>1, <1>3, <1>4, <1>5, <1>6, InnerStep

\* A failed broadcast is stored for a retry with the same transaction.
LEMMA SendFailsKeepsInv ==
    ASSUME SignInv, NEW r \in Routines, SendFails(r)
    PROVE  SignInv'
<1> USE EntryType
<1>1. /\ rt \in [Routines -> Routine] /\ rt[r] \in Routine /\ rt[r].entry \in Entry
      /\ rt[r].inner = "send" /\ rt[r].nonce \in Nonces
      /\ ~exposed => Sound(rt[r]) /\ OneNonce
    BY LiveRoutine DEF SendFails
<1>2. PICK y : y = [rt[r] EXCEPT !.inner = "done", !.nonce = None, !.res = "err"]
    OBVIOUS
<1>3. /\ y \in Routine /\ y.entry = rt[r].entry /\ y.outer = rt[r].outer
      /\ y.inner = "done" /\ y.res = "err"
    BY <1>1, <1>2 DEF Routine
<1>4. /\ SetRoutine(r, y) /\ UNCHANGED <<unSign, cached, chainVars>>
      /\ store' = [rt[r].entry EXCEPT !.SignedTx = rt[r].nonce]
    BY <1>2 DEF SendFails, Returns
<1>5. store' \in Entry
    BY <1>1, <1>4 DEF Entry
<1>6. ASSUME ~exposed, rt'[r] = y PROVE Sound(rt[r])' /\ OneNonce'
    <2>1. Sound(rt[r]) /\ OneNonce
        BY <1>1, <1>6
    <2>2. store' = store
        BY <1>1, <1>4, <2>1 DEF Sound, Entry
    <2>3. Sound(rt[r])'
        BY <1>1, <1>3, <1>4, <1>6, <2>1, <2>2 DEF Sound
    <2>4. \A c : ~Carries(rt[r], c)
        BY <1>1, <2>1 DEF Carries, Sound
    <2>5. \A q \in Routines : q # r => rt'[q] = rt[q]
        BY <1>1, <1>3, <1>4, SetRoutineEffect
    <2>6. OneNonce'
        BY <1>4, <2>1, <2>2, <2>4, <2>5, BoundStays
    <2> QED
        BY <2>3, <2>6
<1>7. /\ cached' \in BOOLEAN /\ nonce' \in Nonces /\ sigs' \subseteq Nonces /\ landed' \subseteq Nonces
    BY <1>4 DEF SignInv, TypeOK, chainVars
<1> QED
    BY <1>1, <1>3, <1>4, <1>5, <1>6, <1>7, InnerStep

-----------------------------------------------------------------------------
(* The outer goroutine *)

\* The outer routine takes the result and updates the store.
LEMMA SettleKeepsInv ==
    ASSUME SignInv, NEW r \in Routines, Settle(r)
    PROVE  SignInv'
<1> USE EntryType, BlankType
<1>1. /\ rt \in [Routines -> Routine] /\ rt[r] \in Routine /\ rt[r].entry \in Entry
      /\ rt[r].inner = "done"
      /\ ~exposed => Sound(rt[r]) /\ OneNonce
      /\ ~exposed => \A q \in Routines : q # r => rt[q] = Blank
    BY LiveRoutine DEF Settle
<1>2. /\ rt' \in [Routines -> Routine] /\ rt'[r] = Blank
      /\ \A q \in Routines : q # r => rt'[q] = rt[q]
    BY <1>1, SetRoutineEffect DEF Settle
<1>3. lock' = FALSE /\ UNCHANGED <<list, cached, chainVars, faults, exposed>>
    BY DEF Settle
<1>4. rt[r].res \in {"ok", "err", "round7"} /\ rt[r].nonce \in Nonces \cup {None}
    BY <1>1 DEF Routine
<1>5. \/ rt[r].res = "ok" /\ store' = None
      \/ rt[r].res = "round7" /\ store' = [rt[r].entry EXCEPT !.round7 = TRUE, !.Checkpoint = rt[r].nonce]
      \/ rt[r].res = "err" /\ store' = store
    BY <1>4 DEF Settle
<1>6. store' \in Entry \cup {None}
    <2>1. [rt[r].entry EXCEPT !.round7 = TRUE, !.Checkpoint = rt[r].nonce] \in Entry
        BY <1>1, <1>4 DEF Entry
    <2> QED
        BY <1>5, <2>1 DEF SignInv, TypeOK
<1>7. TypeOK'
    BY <1>2, <1>3, <1>6 DEF SignInv, TypeOK, Routine, chainVars
<1>8. \A q \in Routines : HasEntry(rt[q])'
    BY <1>2 DEF SignInv, HasEntry
<1>9. ASSUME ~exposed PROVE OneRoutine' /\ OneNonce'
    <2>1. Sound(rt[r]) /\ OneNonce /\ \A q \in Routines : q # r => rt[q] = Blank
        BY <1>1, <1>9
    <2>2. \A q \in Routines : rt'[q] = Blank
        BY <1>2, <2>1
    <2>3. OneRoutine'
        BY <2>2 DEF OneRoutine
    <2>4. Tried' = Tried /\ \A n : Known(n)' = Known(n)
        BY <1>3 DEF Tried, Known, chainVars
    <2>5. \A c \in Tried : c \in Nonces /\ BoundTo(c)
        BY <2>1 DEF OneNonce, Tried, SignInv, TypeOK
    <2>6. \A q \in Routines : \A c \in Nonces : Carries(rt[q], c) => q = r /\ rt[r].res = "round7" /\ c = rt[r].nonce
        BY <1>1, <2>1 DEF Carries
    <2>7. OneNonce'
        <3>1. CASE rt[r].res = "ok" /\ store' = None
            BY <2>1, <2>4, <3>1 DEF OneNonce, BoundTo
        <3>2. CASE rt[r].res = "err" /\ store' = store
            BY <1>3, <2>1, <2>4, <2>5, <2>6, <3>2 DEF OneNonce, BoundTo
        <3>3. CASE rt[r].res = "round7" /\ store' = [rt[r].entry EXCEPT !.round7 = TRUE, !.Checkpoint = rt[r].nonce]
            <4>1. store'.SignedTx = None /\ store'.Checkpoint = rt[r].nonce
                BY <1>1, <2>1, <3>3 DEF Sound, Entry
            <4>2. \A c \in Tried : c = rt[r].nonce
                BY <2>1, <2>5, <2>6, <3>3 DEF BoundTo, Sound
            <4>3. \A c \in Tried : BoundTo(c)'
                BY <4>1, <4>2 DEF BoundTo
            <4> QED
                BY <2>1, <2>4, <4>1, <4>3 DEF OneNonce
        <3> QED
            BY <1>5, <3>1, <3>2, <3>3
    <2> QED
        BY <2>3, <2>7
<1> QED
    BY <1>3, <1>7, <1>8, <1>9 DEF SignInv

\* The outer routine gives up while the inner one runs on: exposed.
LEMMA TimeoutKeepsInv ==
    ASSUME SignInv, NEW r \in Routines, Timeout(r)
    PROVE  SignInv'
<1>1. rt \in [Routines -> Routine] /\ rt[r] \in Routine /\ HasEntry(rt[r]) /\ rt[r] # Blank
    BY LiveRoutine DEF Timeout, SignInv
<1>2. PICK y : y = [rt[r] EXCEPT !.outer = "idle"]
    OBVIOUS
<1>3. y \in Routine /\ y.entry = rt[r].entry /\ y.inner = rt[r].inner /\ y.nonce = rt[r].nonce
    BY <1>1, <1>2 DEF Routine
<1>4. /\ rt' \in [Routines -> Routine] /\ (rt'[r] = Blank \/ rt'[r] = y)
      /\ \A q \in Routines : q # r => rt'[q] = rt[q]
    BY <1>1, <1>2, <1>3, SetRoutineEffect DEF Timeout
<1>5. \A q \in Routines : HasEntry(rt[q])'
    BY <1>1, <1>3, <1>4 DEF SignInv, HasEntry
<1>6. faults' \in 0 .. MaxFaults /\ exposed' = TRUE
    BY SignAssumption DEF Timeout, SignInv, TypeOK
<1>7. TypeOK'
    BY <1>4, <1>6 DEF Timeout, SignInv, TypeOK, Routine, chainVars
<1> QED
    BY <1>5, <1>6, <1>7 DEF SignInv

-----------------------------------------------------------------------------
(* The loop, the chain and the process *)

\* Listing the items and skipping one that is locked.
LEMMA LoopKeepsInv ==
    ASSUME SignInv, List \/ Skip
    PROVE  SignInv'
<1>1. UNCHANGED <<store, lock, rt, cached, chainVars, faults, exposed>> /\ list' \in Entry \cup {None}
    BY DEF List, Skip, SignInv, TypeOK
<1>2. OneRoutine => OneRoutine'
    BY <1>1 DEF OneRoutine, Sound, Known, Tried, chainVars
<1>3. OneNonce => OneNonce'
    BY <1>1 DEF OneNonce, BoundTo, Carries, Known, Tried, chainVars
<1> QED
    BY <1>1, <1>2, <1>3 DEF SignInv, TypeOK, HasEntry, chainVars

\* A routine is spawned with what the store held when it was listed.
LEMMA SpawnKeepsInv ==
    ASSUME SignInv, Spawn
    PROVE  SignInv'
<1> USE EntryType, BlankType
<1> DEFINE S == {q \in Routines : rt[q] = Blank}
<1>1. S \subseteq Nat /\ S # {}
    BY SignAssumption DEF Spawn
<1>2. PICK r \in Routines : r = Min(S) /\ rt[r] = Blank
    BY <1>1, MinIsMember
<1>3. list \in Entry /\ list # None /\ rt \in [Routines -> Routine]
    BY DEF Spawn, SignInv, TypeOK, Routine
<1>4. PICK y : y = [Blank EXCEPT !.outer = "run", !.inner = "check", !.entry = list]
    OBVIOUS
<1>5. y \in Routine /\ y.outer = "run" /\ y.inner = "check" /\ y.entry = list /\ y.res = "err"
    BY <1>3, <1>4 DEF Routine, Blank
<1>6. /\ rt' = [rt EXCEPT ![r] = y] /\ ~lock /\ lock' = TRUE /\ list' = None
      /\ exposed' = (exposed \/ list # store) /\ UNCHANGED <<store, cached, chainVars, faults>>
    BY <1>2, <1>4 DEF Spawn
<1>7. rt' \in [Routines -> Routine] /\ rt'[r] = y /\ \A q \in Routines : q # r => rt'[q] = rt[q]
    BY <1>3, <1>5, <1>6
<1>8. TypeOK'
    BY <1>6, <1>7 DEF SignInv, TypeOK, Routine, chainVars
<1>9. \A q \in Routines : HasEntry(rt[q])'
    BY <1>3, <1>5, <1>7 DEF SignInv, HasEntry
<1>10. ASSUME ~exposed' PROVE OneRoutine' /\ OneNonce'
    <2>1. ~exposed /\ list = store /\ OneRoutine /\ OneNonce
        BY <1>6, <1>10 DEF SignInv
    <2>2. \A q \in Routines : rt[q] = Blank
        BY <1>6, <2>1 DEF OneRoutine
    <2>3. Sound(rt[r])'
        BY <1>3, <1>5, <1>6, <1>7, <2>1 DEF Sound
    <2>4. OneRoutine'
        BY <1>6, <1>7, <2>2, <2>3 DEF OneRoutine
    <2>5. \A c : ~Carries(rt[r], c)
        BY <1>2 DEF Carries
    <2>6. OneNonce'
        BY <1>6, <1>7, <2>1, <2>5, BoundStays
    <2> QED
        BY <2>4, <2>6
<1> QED
    BY <1>8, <1>9, <1>10 DEF SignInv

\* The account's nonce is used up: by the item, from a signature that exists, or
\* by another transaction of the vault.
LEMMA ChainKeepsInv ==
    ASSUME SignInv, OtherTx \/ \E n \in sigs : PeerBroadcast(n)
    PROVE  SignInv'
<1>1. UNCHANGED <<store, list, lock, rt, cached, faults, exposed>>
    BY DEF OtherTx, PeerBroadcast
<1>2. /\ nonce' \in Nonces /\ sigs' \subseteq Nonces /\ landed' \subseteq Nonces
      /\ Tried' \subseteq Tried /\ \A m \in Nonces : Known(m) => Known(m)'
    <2>1. CASE OtherTx
        <3>1. nonce' = nonce + 1 /\ nonce' \in Nonces /\ sigs' = sigs \ {nonce} /\ landed' = landed
            BY <2>1, SignAssumption DEF OtherTx, SignInv, TypeOK, Nonces
        <3>2. \A m \in Nonces : Known(m) => Known(m)'
            BY <3>1, NoncesType DEF Known, Tried, SignInv, TypeOK
        <3> QED
            BY <3>1, <3>2 DEF Tried, SignInv, TypeOK
    <2>2. ASSUME NEW n \in sigs, PeerBroadcast(n)
          PROVE  /\ nonce' \in Nonces /\ sigs' \subseteq Nonces /\ landed' \subseteq Nonces
                 /\ Tried' \subseteq Tried /\ \A m \in Nonces : Known(m) => Known(m)'
        <3>1. n \in Nonces /\ Known(n) /\ Land(n)
            BY <2>2 DEF SignInv, TypeOK, Known, Tried, PeerBroadcast
        <3> QED
            BY <3>1, LandEffect
    <2> QED
        BY <2>1, <2>2
<1>3. TypeOK' /\ \A q \in Routines : HasEntry(rt[q])'
    BY <1>1, <1>2 DEF SignInv, TypeOK, HasEntry
<1>4. ASSUME ~exposed PROVE OneRoutine' /\ OneNonce'
    <2>1. OneRoutine /\ OneNonce
        BY <1>4 DEF SignInv
    <2>2. ASSUME NEW q \in Routines, Sound(rt[q]) PROVE Sound(rt[q])'
        <3>1. CASE rt[q].inner = "store"
            <4>1. rt[q].nonce \in Nonces /\ rt'[q] = rt[q]
                BY <1>1, <3>1, LiveRoutine
            <4>2. PICK n \in Nonces : n = rt[q].nonce
                BY <4>1
            <4>3. Known(n)'
                BY <1>2, <2>2, <3>1, <4>2 DEF Sound
            <4> QED
                BY <1>1, <2>2, <3>1, <4>1, <4>2, <4>3 DEF Sound
        <3>2. CASE rt[q].inner # "store"
            BY <1>1, <2>2, <3>2 DEF Sound
        <3> QED
            BY <3>1, <3>2
    <2>3. OneRoutine'
        BY <1>1, <2>1, <2>2 DEF OneRoutine
    <2>4. \A c : BoundTo(c) => BoundTo(c)'
        BY <1>1 DEF BoundTo, Carries
    <2>5. ASSUME store # None, store.SignedTx # None PROVE Known(store.SignedTx)'
        <3>1. store.SignedTx \in Nonces /\ Known(store.SignedTx)
            BY <2>1, <2>5, EntryType DEF OneNonce, SignInv, TypeOK
        <3>2. PICK n \in Nonces : n = store.SignedTx
            BY <3>1
        <3>3. Known(n)'
            BY <1>2, <3>1, <3>2
        <3> QED
            BY <1>1, <3>2, <3>3
    <2>6. OneNonce'
        BY <1>1, <1>2, <2>1, <2>4, <2>5 DEF OneNonce
    <2> QED
        BY <2>3, <2>6
<1> QED
    BY <1>1, <1>3, <1>4 DEF SignInv

\* A crash loses the routines and keeps the store.
LEMMA CrashKeepsInv ==
    ASSUME SignInv, Crash
    PROVE  SignInv'
<1> USE EntryType, BlankType
<1>1. PICK again \in BOOLEAN :
          /\ store' = IF again THEN Fresh ELSE store
          /\ exposed' = (exposed \/ (again /\ store # Fresh /\ ~cached) \/ \E r \in Routines : Unrecorded(r))
    BY DEF Crash
<1>2. /\ rt' = [r \in Routines |-> Blank] /\ lock' = FALSE /\ list' = None
      /\ UNCHANGED <<cached, chainVars>>
    BY DEF Crash
<1>3. faults' \in 0 .. MaxFaults /\ exposed' \in BOOLEAN /\ store' \in Entry \cup {None}
    BY <1>1, SignAssumption DEF Crash, SignInv, TypeOK
<1>4. rt' \in [Routines -> Routine] /\ \A r \in Routines : rt'[r] = Blank
    BY <1>2
<1>5. TypeOK' /\ \A q \in Routines : HasEntry(rt[q])'
    BY <1>2, <1>3, <1>4 DEF SignInv, TypeOK, HasEntry, Routine, chainVars
<1>6. ASSUME ~exposed' PROVE OneRoutine' /\ OneNonce'
    <2>1. /\ OneRoutine /\ OneNonce /\ \A r \in Routines : ~Unrecorded(r)
          /\ store' = store \/ (cached /\ store' = Fresh)
        BY <1>1, <1>6 DEF SignInv
    <2>2. OneRoutine'
        BY <1>4 DEF OneRoutine
    <2>3. Tried' = Tried /\ \A n : Known(n)' = Known(n)
        BY <1>2 DEF Tried, Known, chainVars
    <2>4. \A q \in Routines : \A c \in Nonces : ~Carries(rt[q], c)
        BY <2>1 DEF OneRoutine, Sound, Carries, Unrecorded
    <2>5. \A c \in Tried : c \in Nonces /\ BoundTo(c)
        BY <2>1 DEF OneNonce, Tried, SignInv, TypeOK
    <2>6. \A c \in Tried : BoundTo(c)'
        BY <1>2, <2>1, <2>4, <2>5 DEF BoundTo
    <2>7. Fresh.SignedTx = None
        BY DEF Fresh
    <2>8. OneNonce'
        BY <2>1, <2>3, <2>6, <2>7 DEF OneNonce
    <2> QED
        BY <2>2, <2>8
<1> QED
    BY <1>5, <1>6 DEF SignInv

-----------------------------------------------------------------------------
(* The theorems *)

\* Nothing is signed at the start.
LEMMA SignInvInit == Init => SignInv
<1> SUFFICES ASSUME Init PROVE SignInv
    OBVIOUS
<1> USE EntryType, BlankType
<1>1. TypeOK
    <2>1. rt \in [Routines -> Routine]
        BY DEF Init
    <2>2. nonce \in Nonces /\ faults \in 0 .. MaxFaults
        BY SignAssumption DEF Init, Nonces
    <2> QED
        BY <2>1, <2>2 DEF Init, TypeOK, Routine
<1>2. \A r \in Routines : rt[r] = Blank
    BY DEF Init
<1>3. Tried = {} /\ store.SignedTx = None
    BY DEF Init, Tried, Fresh
<1> QED
    BY <1>1, <1>2, <1>3 DEF SignInv, HasEntry, OneRoutine, OneNonce

\* The invariant holds throughout.
LEMMA SignInvInvariant == Spec => []SignInv
<1>1. Init => SignInv
    BY SignInvInit
<1>2. ASSUME SignInv, [Next]_vars PROVE SignInv'
    <2>1. CASE List \/ Skip
        BY <1>2, <2>1, LoopKeepsInv
    <2>2. CASE Spawn
        BY <1>2, <2>2, SpawnKeepsInv
    <2>3. CASE OtherTx \/ \E n \in sigs : PeerBroadcast(n)
        BY <1>2, <2>3, ChainKeepsInv
    <2>4. CASE Crash
        BY <1>2, <2>4, CrashKeepsInv
    <2>5. ASSUME NEW r \in Routines,
                 \/ CheckFails(r) \/ CheckPasses(r) \/ HasSigned(r) \/ GetNonce(r)
                 \/ SignFails(r) \/ SignRound7(r) \/ Sign(r) \/ StoreSigned(r)
                 \/ Send(r) \/ SetSigned(r) \/ SendFails(r) \/ Settle(r) \/ Timeout(r)
          PROVE  SignInv'
        BY <1>2, <2>5, ChecksKeepInv, SignKeepsInv, StoreSignedKeepsInv, SendKeepsInv,
           SetSignedKeepsInv, SendFailsKeepsInv, SettleKeepsInv, TimeoutKeepsInv
    <2>6. CASE UNCHANGED vars
        <3>1. UNCHANGED <<store, lock, rt, cached, chainVars, faults, exposed, list>>
            BY <2>6 DEF vars
        <3>2. (OneRoutine => OneRoutine') /\ (OneNonce => OneNonce')
            BY <3>1 DEF OneRoutine, OneNonce, Sound, BoundTo, Carries, Known, Tried, chainVars
        <3> QED
            BY <1>2, <3>1, <3>2 DEF SignInv, TypeOK, HasEntry, chainVars
    <2> QED
        BY <1>2, <2>1, <2>2, <2>3, <2>4, <2>5, <2>6 DEF Next
<1> QED
    BY <1>1, <1>2, PTL DEF Spec

\* The item's record, the routines' copies of it, the account's nonce and the
\* signatures keep their types through every failure, time-out and restart.
THEOREM SignTypeCorrect == Spec => []TypeOK
<1>1. SignInv => TypeOK
    BY DEF SignInv
<1> QED
    BY <1>1, SignInvInvariant, PTL

\* While no routine was abandoned, started from an outdated list or lost with an
\* unrecorded signature, every attempt of the vault to pay the item uses the nonce
\* of the first one that left a signature: two payments would need two nonces.
THEOREM LandsAtMostOnce == Spec => []PaidAtMostOnce
<1>1. ASSUME SignInv PROVE PaidAtMostOnce
    <2> SUFFICES ASSUME ~exposed PROVE Cardinality(landed) <= 1
        BY DEF PaidAtMostOnce
    <2>1. \A c, d \in landed : c = d
        BY <1>1 DEF SignInv, OneNonce, Tried
    <2>2. landed = {} \/ \E c : landed = {c}
        BY <2>1
    <2>3. CASE landed = {}
        BY <2>3, FS_EmptySet
    <2>4. ASSUME NEW c, landed = {c} PROVE Cardinality(landed) <= 1
        BY <2>4, FS_Singleton
    <2> QED
        BY <2>2, <2>3, <2>4
<1> QED
    BY <1>1, SignInvInvariant, PTL

\* Under the same conditions no step makes a further signature of an item that
\* BroadcastTx has marked in the signer cache.
THEOREM CacheStopsSigning == Spec => NotSignedOnceCached
<1>1. ASSUME SignInv, [Next]_vars PROVE [cached /\ sigs' \ sigs # {} => exposed]_vars
    <2> SUFFICES ASSUME ~exposed, cached, Next PROVE sigs' \subseteq sigs
        BY <1>1
    <2>1. \A r \in Routines : rt[r].inner # "sign"
        BY <1>1, BlankType DEF SignInv, OneRoutine, Sound
    <2>2. ASSUME NEW r \in Routines,
                 \/ CheckFails(r) \/ CheckPasses(r) \/ HasSigned(r) \/ GetNonce(r)
                 \/ SignFails(r) \/ StoreSigned(r)
                 \/ Send(r) \/ SetSigned(r) \/ SendFails(r) \/ Settle(r) \/ Timeout(r)
          PROVE  sigs' \subseteq sigs
        BY <2>2 DEF CheckFails, CheckPasses, HasSigned, GetNonce, SignFails, StoreSigned,
                    Send, Land, SetSigned, SendFails, Settle, Timeout, chainVars
    <2>3. CASE List \/ Skip \/ Spawn \/ OtherTx \/ Crash \/ \E n \in sigs : PeerBroadcast(n)
        BY <2>3 DEF List, Skip, Spawn, OtherTx, Crash, PeerBroadcast, Land, chainVars
    <2> QED
        BY <2>1, <2>2, <2>3 DEF Next, Sign, SignRound7
<1> QED
    BY <1>1, SignInvInvariant, PTL DEF Spec, NotSignedOnceCached
=============================================================================
