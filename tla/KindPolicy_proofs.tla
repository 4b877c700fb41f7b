-------------------------- MODULE KindPolicy_proofs --------------------------
(* Theorems about KindPolicy, for all policies, quantities and word widths.   *)
(* The invariant says what each chain has passed; since all three deciders    *)
(* look at the same faults, the comparison of two deciders is a comparison of *)
(* the orders of their chains.                                                *)
EXTENDS KindPolicy, TLAPS

-----------------------------------------------------------------------------
(* The lengths of the chains, and the reasons on them.                        *)
LEMMA ChainLengths ==
  /\ Len(RustConstruction) = 3 /\ Len(RustDimensions) = 4
  /\ Len(Rfc0003Construction) = 6 /\ Len(Rfc0003Quantity) = 11
  /\ Len(EarlierConstruction) = 5 /\ Len(EarlierQuantity) = 10
BY DEF RustConstruction, RustDimensions, Rfc0003Construction, Rfc0003Quantity,
       EarlierConstruction, EarlierQuantity

LEMMA ReasonsListed ==
  Reasons = {"UnsupportedSchema", "UnsupportedMode", "EpochOutOfRange",
             "InvalidValidityWindow", "MaximumOutOfRange", "LifecycleMaximumMustBeOne",
             "UnitMismatch", "QuantityOutOfRange",
             "LifecycleQuantityMustBeOne", "ZeroQuantity", "ExceedsMaximum"}
BY DEF Reasons, Rfc0003Quantity

(* The six chains; a decider has one of them in every state.                  *)
Chains == {RustConstruction, RustDimensions, Rfc0003Construction, Rfc0003Quantity,
           EarlierConstruction, EarlierQuantity}

LEMMA ChainIsOneOf ==
  ASSUME NEW decider \in Deciders
  PROVE  Chain(decider) \in Chains /\ Chain(decider)' \in Chains
BY DEF Chain, Chains, Deciders

LEMMA ChainsShort ==
  ASSUME NEW chain \in Chains
  PROVE  /\ Len(chain) \in 3 .. 11
         /\ \A n \in 1 .. Len(chain) : chain[n] \in Reasons
<1>1. /\ \A n \in 1 .. 3 : RustConstruction[n] \in Reasons
      /\ \A n \in 1 .. 4 : RustDimensions[n] \in Reasons
  BY ReasonsListed DEF RustConstruction, RustDimensions
<1>2. /\ \A n \in 1 .. 6 : Rfc0003Construction[n] \in Reasons
      /\ \A n \in 1 .. 11 : Rfc0003Quantity[n] \in Reasons
  BY ReasonsListed DEF Rfc0003Construction, Rfc0003Quantity
<1>3. /\ \A n \in 1 .. 5 : EarlierConstruction[n] \in Reasons
      /\ \A n \in 1 .. 10 : EarlierQuantity[n] \in Reasons
  BY ReasonsListed DEF EarlierConstruction, EarlierQuantity
<1>. QED
  BY <1>1, <1>2, <1>3, ChainLengths DEF Chains

(* A step that asks nothing new leaves chains and faults as they are.         *)
LEMMA Frame ==
  ASSUME policy' = policy, resource' = resource
  PROVE  /\ \A check : Fault(check)' = Fault(check)
         /\ \A decider : Chain(decider)' = Chain(decider)
         /\ Asked' = Asked
BY DEF Fault, Asked, Chain

(* A check about policies is no check about resources.                        *)
LEMMA PolicyChecks ==
  ASSUME NEW check \in {"UnsupportedSchema", "UnsupportedMode", "EpochOutOfRange",
                        "InvalidValidityWindow", "MaximumOutOfRange",
                        "LifecycleMaximumMustBeOne"}
  PROVE  /\ Fault(check) = PolicyFault(policy, check)
         /\ Fault(check)' = PolicyFault(policy, check)'
<1>1. \A p, r : ~ResourceFault(p, r, check)
  BY DEF ResourceFault
<1>2. \A p : PolicyFault(p, check) \in BOOLEAN
  BY DEF PolicyFault
<1>3. Fault(check) = PolicyFault(policy, check)
  BY <1>1, <1>2 DEF Fault
<1>4. ~ResourceFault(policy, resource[1], check)'
  BY DEF ResourceFault
<1>5. Fault(check)' = PolicyFault(policy, check)'
  <2>1. PolicyFault(policy, check)' \in BOOLEAN
    BY DEF PolicyFault
  <2>. QED
    BY <1>4, <2>1 DEF Fault
<1>. QED
  BY <1>3, <1>5

-----------------------------------------------------------------------------
(* The verdicts are told apart by their status.                               *)
LEMMA Statuses ==
  /\ Accepted.status = "accepted" /\ NotAsked.status = "not asked"
  /\ \A n : Checking(n).status = "checking" /\ Checking(n).next = n
  /\ \A reason : /\ Rejected(reason).status = "rejected"
                 /\ Rejected(reason).reason = reason
BY DEF Accepted, NotAsked, Checking, Rejected

(* A decider within its chain stands at one of its checks, or past the last.  *)
LEMMA CheckingFits ==
  ASSUME TypeOK, NEW decider \in Deciders, progress[decider].status = "checking"
  PROVE  /\ progress[decider].next \in 1 .. Len(Chain(decider)) + 1
         /\ progress[decider] = Checking(progress[decider].next)
<1>1. PICK n \in 1 .. Len(Chain(decider)) + 1 : progress[decider] = Checking(n)
  <2>1. progress[decider] \notin {Accepted, NotAsked}
    BY Statuses
  <2>2. \A reason : progress[decider] # Rejected(reason)
    BY Statuses
  <2>. QED
    BY <2>1, <2>2 DEF TypeOK
<1>. QED
  BY <1>1, Statuses

(* What a step of one decider, or of none, leaves of the others.              *)
StateOK(decider) ==
  \/ progress[decider] \in {Accepted, NotAsked}
  \/ \E n \in 1 .. Len(Chain(decider)) + 1 : progress[decider] = Checking(n)
  \/ \E reason \in Reasons : progress[decider] = Rejected(reason)

LEMMA OthersKeep ==
  ASSUME IInv, policy' = policy, resource' = resource,
         NEW decider \in Deciders, progress'[decider] = progress[decider],
         decider = "rust" => constructed' = constructed
  PROVE  StateOK(decider)' /\ ProgressSound(decider)'
<1>1. /\ \A check : Fault(check)' = Fault(check)
      /\ \A d : Chain(d)' = Chain(d)
  BY Frame
<1>2. StateOK(decider) /\ ProgressSound(decider)
  BY DEF IInv, TypeOK, StateOK
<1>3. StateOK(decider)'
  BY <1>1, <1>2 DEF StateOK
<1>4. VerdictChain(decider)' = VerdictChain(decider)
  BY <1>1 DEF VerdictChain
<1>5. \A n : Passed(decider, n)' = Passed(decider, n)
  BY <1>1 DEF Passed
<1>6. \A chain, reason : FirstFault(chain, reason)' = FirstFault(chain, reason)
  BY <1>1 DEF FirstFault
<1>. QED
  BY <1>1, <1>2, <1>3, <1>4, <1>5, <1>6 DEF ProgressSound

(* A decider that starts, or is not asked, has passed and refused nothing.    *)
LEMMA StartsSound ==
  ASSUME NEW decider \in Deciders,
         progress[decider] = Checking(1) \/ progress[decider] = NotAsked
  PROVE  StateOK(decider) /\ ProgressSound(decider)
<1>1. CASE progress[decider] = Checking(1)
  <2>1. progress[decider].status = "checking" /\ progress[decider].next = 1
    BY <1>1, Statuses
  <2>2. Passed(decider, 1)
    BY DEF Passed
  <2>3. StateOK(decider)
    <3>1. 1 \in 1 .. Len(Chain(decider)) + 1
      BY ChainIsOneOf, ChainsShort
    <3>. QED
      BY <1>1, <3>1 DEF StateOK
  <2>. QED
    BY <2>1, <2>2, <2>3 DEF ProgressSound
<1>2. CASE progress[decider] = NotAsked
  BY <1>2, Statuses DEF StateOK, ProgressSound
<1>. QED
  BY <1>1, <1>2

LEMMA StartsSoundNext ==
  ASSUME NEW decider \in Deciders,
         progress'[decider] = Checking(1) \/ progress'[decider] = NotAsked
  PROVE  StateOK(decider)' /\ ProgressSound(decider)'
<1>1. CASE progress'[decider] = Checking(1)
  <2>1. progress'[decider].status = "checking" /\ progress'[decider].next = 1
    BY <1>1, Statuses
  <2>2. Passed(decider, 1)'
    BY DEF Passed
  <2>3. StateOK(decider)'
    <3>1. (1 \in 1 .. Len(Chain(decider)) + 1)'
      <4>1. (Len(Chain(decider)) \in 3 .. 11)'
        BY ChainIsOneOf, ChainsShort
      <4>. QED
        BY <4>1
    <3>. QED
      BY <1>1, <3>1 DEF StateOK
  <2>. QED
    BY <2>1, <2>2, <2>3 DEF ProgressSound
<1>2. CASE progress'[decider] = NotAsked
  BY <1>2, Statuses DEF StateOK, ProgressSound
<1>. QED
  BY <1>1, <1>2

LEMMA InitInv == Init => IInv
<1> SUFFICES ASSUME Init
             PROVE  IInv
  OBVIOUS
<1>1. \A decider \in Deciders :
        \/ progress[decider] = Checking(1)
        \/ progress[decider] = NotAsked
  BY DEF Init
<1>2. ~Asked /\ constructed = FALSE
  BY DEF Init, Asked
<1>3. \A decider \in Deciders : StateOK(decider) /\ ProgressSound(decider)
  BY <1>1, StartsSound
<1>4. TypeOK
  BY <1>3 DEF Init, TypeOK, StateOK
<1>5. /\ TypedPolicy(policy) \/ progress["rust"] = NotAsked
      /\ \A decider \in Deciders \ {"rust"} : progress[decider] = Checking(1)
      /\ "rust" \in Deciders
  BY DEF Init, Deciders
<1>6. progress["rust"].status \in {"checking", "not asked"}
  BY <1>1, <1>5, Statuses
<1>7. CrateTyped
  BY <1>2, <1>5, <1>6, Statuses DEF CrateTyped
<1>. QED
  BY <1>3, <1>4, <1>7 DEF IInv

-----------------------------------------------------------------------------
(* A step of one decider: what it needs to show of that decider alone.        *)
DeciderStep(decider) ==
  /\ policy' = policy /\ resource' = resource
  /\ \E p : progress' = [progress EXCEPT ![decider] = p]
  /\ constructed' \in BOOLEAN
  /\ decider # "rust" => constructed' = constructed

LEMMA StepOfOne ==
  ASSUME IInv, NEW decider \in Deciders, DeciderStep(decider),
         StateOK(decider)', ProgressSound(decider)', CrateTyped'
  PROVE  IInv'
<1>1. ASSUME NEW other \in Deciders, other # decider
      PROVE  StateOK(other)' /\ ProgressSound(other)'
  <2>1. other = "rust" => constructed' = constructed
    BY <1>1 DEF DeciderStep
  <2>2. progress'[other] = progress[other]
    BY <1>1 DEF DeciderStep, IInv, TypeOK
  <2>. QED
    BY <2>1, <2>2, OthersKeep DEF DeciderStep
<1>2. \A any \in Deciders : StateOK(any)' /\ ProgressSound(any)'
  BY <1>1
<1>3. DOMAIN progress' = Deciders
  BY DEF DeciderStep, IInv, TypeOK
<1>4. TypeOK'
  BY <1>2, <1>3 DEF DeciderStep, IInv, TypeOK, StateOK
<1>. QED
  BY <1>2, <1>4 DEF IInv

LEMMA PassCheckInv ==
  ASSUME IInv, NEW decider \in Deciders, PassCheck(decider)
  PROVE  IInv'
<1>1. PICK n \in 1 .. Len(Chain(decider)) :
        /\ progress[decider].status = "checking" /\ progress[decider].next = n
        /\ ~Fault(Chain(decider)[n])
        /\ progress'[decider] = Checking(n + 1)
  <2>1. progress[decider].next \in 1 .. Len(Chain(decider)) + 1
    BY CheckingFits DEF PassCheck, InChain, IInv
  <2>2. Len(Chain(decider)) \in Nat
    BY ChainIsOneOf, ChainsShort
  <2>3. progress[decider].next \in 1 .. Len(Chain(decider))
    BY <2>1, <2>2 DEF PassCheck, InChain
  <2>. QED
    BY <2>3 DEF PassCheck, InChain, CurrentCheck, IInv, TypeOK
<1>2. /\ \A check : Fault(check)' = Fault(check)
      /\ \A d : Chain(d)' = Chain(d)
      /\ Asked' = Asked
  BY Frame DEF PassCheck
<1>3. Len(Chain(decider)) \in Nat
  BY ChainIsOneOf, ChainsShort
<1>4. StateOK(decider)'
  <2>1. n + 1 \in 1 .. Len(Chain(decider)) + 1
    BY <1>3
  <2>2. n + 1 \in 1 .. Len(Chain(decider)') + 1
    BY <1>2, <2>1
  <2>. QED
    BY <1>1, <2>2 DEF StateOK
<1>5. ProgressSound(decider)'
  <2>1. Passed(decider, n)
    BY <1>1 DEF IInv, ProgressSound
  <2>2. ASSUME NEW m \in 1 .. (n + 1) - 1
        PROVE  ~Fault(Chain(decider)[m])
    <3>1. m = n \/ m \in 1 .. n - 1
      BY <1>3
    <3>. QED
      BY <1>1, <2>1, <3>1 DEF Passed
  <2>3. Passed(decider, n + 1)'
    BY <1>2, <2>2 DEF Passed
  <2>. QED
    BY <1>1, <2>3, Statuses DEF ProgressSound
<1>6. CrateTyped'
  <2>1. progress'["rust"].status = progress["rust"].status
    <3>1. CASE decider = "rust"
      BY <1>1, <3>1, Statuses
    <3>2. CASE decider # "rust"
      BY <3>2 DEF PassCheck, IInv, TypeOK, Deciders
    <3>. QED
      BY <3>1, <3>2
  <2>2. \A d \in Deciders \ {"rust"} : progress'[d].status # "not asked"
    BY <1>1, Statuses DEF PassCheck, IInv, TypeOK, CrateTyped
  <2>. QED
    BY <1>2, <2>1, <2>2 DEF PassCheck, IInv, CrateTyped
<1>7. DeciderStep(decider)
  BY DEF PassCheck, DeciderStep, IInv, TypeOK
<1>. QED
  BY <1>4, <1>5, <1>6, <1>7, StepOfOne

LEMMA RejectCheckInv ==
  ASSUME IInv, NEW decider \in Deciders, RejectCheck(decider)
  PROVE  IInv'
<1>1. PICK n \in 1 .. Len(Chain(decider)) :
        /\ progress[decider].status = "checking" /\ progress[decider].next = n
        /\ Fault(Chain(decider)[n])
        /\ progress'[decider] = Rejected(Chain(decider)[n])
  <2>1. progress[decider].next \in 1 .. Len(Chain(decider)) + 1
    BY CheckingFits DEF RejectCheck, InChain, IInv
  <2>2. Len(Chain(decider)) \in Nat
    BY ChainIsOneOf, ChainsShort
  <2>3. progress[decider].next \in 1 .. Len(Chain(decider))
    BY <2>1, <2>2 DEF RejectCheck, InChain
  <2>. QED
    BY <2>3 DEF RejectCheck, InChain, CurrentCheck, IInv, TypeOK
<1>2. /\ \A check : Fault(check)' = Fault(check)
      /\ \A d : Chain(d)' = Chain(d)
      /\ Asked' = Asked
  BY Frame DEF RejectCheck
<1>3. StateOK(decider)'
  BY <1>1, ChainIsOneOf, ChainsShort DEF StateOK
<1>4. VerdictChain(decider) = Chain(decider)
  <2>1. decider = "rust" /\ ~constructed => ~Asked
    BY <1>1 DEF IInv, CrateTyped
  <2>. QED
    BY <2>1 DEF VerdictChain, Chain
<1>5. ProgressSound(decider)'
  <2>1. Passed(decider, n)
    BY <1>1 DEF IInv, ProgressSound
  <2>2. PICK chain : chain = Chain(decider)
    OBVIOUS
  <2>3. /\ n \in 1 .. Len(chain)
        /\ Fault(chain[n])'
        /\ \A m \in 1 .. n - 1 : ~Fault(chain[m])'
    BY <1>1, <1>2, <2>1, <2>2 DEF Passed
  <2>4. VerdictChain(decider)' = chain
    BY <1>2, <1>4, <2>2 DEF RejectCheck, VerdictChain
  <2>5. progress'[decider].status = "rejected" /\ progress'[decider].reason = chain[n]
    BY <1>1, <2>2, Statuses
  <2>6. FirstFault(VerdictChain(decider), progress[decider].reason)'
    BY <2>3, <2>4, <2>5 DEF FirstFault
  <2>. QED
    BY <2>5, <2>6 DEF ProgressSound
<1>6. CrateTyped'
  <2>1. CASE decider = "rust"
    <3>1. progress'["rust"].status = "rejected"
      BY <1>1, <2>1, Statuses
    <3>2. \A d \in Deciders \ {"rust"} : progress'[d] = progress[d]
      BY <2>1 DEF RejectCheck, IInv, TypeOK
    <3>. QED
      BY <1>1, <1>2, <2>1, <3>1, <3>2 DEF RejectCheck, IInv, CrateTyped
  <2>2. CASE decider # "rust"
    <3>1. progress'["rust"] = progress["rust"]
      BY <2>2 DEF RejectCheck, IInv, TypeOK, Deciders
    <3>2. \A d \in Deciders \ {"rust"} : progress'[d].status # "not asked"
      BY <1>1, Statuses DEF RejectCheck, IInv, TypeOK, CrateTyped
    <3>. QED
      BY <1>2, <3>1, <3>2 DEF RejectCheck, IInv, CrateTyped
  <2>. QED
    BY <2>1, <2>2
<1>7. DeciderStep(decider)
  BY DEF RejectCheck, DeciderStep, IInv, TypeOK
<1>. QED
  BY <1>3, <1>5, <1>6, <1>7, StepOfOne

LEMMA AcceptInv ==
  ASSUME IInv, NEW decider \in Deciders, Accept(decider)
  PROVE  IInv'
<1>1. /\ progress[decider].status = "checking"
      /\ progress[decider].next = Len(Chain(decider)) + 1
      /\ progress'[decider] = Accepted
  <2>1. progress[decider].next \in 1 .. Len(Chain(decider)) + 1
    BY CheckingFits DEF Accept, IInv
  <2>2. Len(Chain(decider)) \in Nat
    BY ChainIsOneOf, ChainsShort
  <2>. QED
    BY <2>1, <2>2 DEF Accept, IInv, TypeOK
<1>2. /\ \A check : Fault(check)' = Fault(check)
      /\ \A d : Chain(d)' = Chain(d)
      /\ Asked' = Asked
  BY Frame DEF Accept
<1>3. StateOK(decider)'
  BY <1>1 DEF StateOK
<1>4. ProgressSound(decider)'
  <2>1. Passed(decider, Len(Chain(decider)) + 1)
    BY <1>1 DEF IInv, ProgressSound
  <2>2. Passed(decider, Len(Chain(decider)) + 1)'
    BY <1>2, <2>1 DEF Passed
  <2>. QED
    BY <1>1, <2>2, Statuses DEF ProgressSound
<1>5. CrateTyped'
  <2>1. CASE decider # "rust"
    <3>1. progress'["rust"] = progress["rust"] /\ constructed' = constructed
      BY <2>1 DEF Accept, IInv, TypeOK, Deciders
    <3>2. \A d \in Deciders \ {"rust"} : progress'[d].status # "not asked"
      BY <1>1, Statuses DEF Accept, IInv, TypeOK, CrateTyped
    <3>3. /\ policy' = policy /\ resource' = resource
          /\ TypedPolicy(policy)' = TypedPolicy(policy)
          /\ \A n : PolicyFault(policy, RustConstruction[n])'
                    = PolicyFault(policy, RustConstruction[n])
      BY DEF Accept, TypedPolicy, PolicyFault, RustConstruction
    <3>4. CrateTyped
      BY DEF IInv
    <3>. QED
      BY <1>2, <3>1, <3>2, <3>3, <3>4 DEF CrateTyped, TypedQuantity
  <2>2. CASE decider = "rust"
    <3>1. progress'["rust"].status = "accepted" /\ constructed' = TRUE
      BY <1>1, <2>2, Statuses DEF Accept
    <3>2. \A d \in Deciders \ {"rust"} : progress'[d] = progress[d]
      BY <2>2 DEF Accept, IInv, TypeOK
    <3>3. TypedPolicy(policy)
      BY <1>1, <2>2 DEF IInv, CrateTyped
    <3>4. \A n \in 1 .. 3 : ~PolicyFault(policy, RustConstruction[n])
      <4>1. CASE constructed
        BY <4>1 DEF IInv, CrateTyped
      <4>2. CASE ~constructed
        <5>1. ~Asked
          BY <1>1, <2>2, <4>2 DEF IInv, CrateTyped
        <5>2. Chain("rust") = RustConstruction
          BY <5>1 DEF Chain
        <5>3. \A n \in 1 .. 3 : ~Fault(RustConstruction[n])
          BY <1>1, <2>2, <5>2, ChainLengths DEF IInv, ProgressSound, Passed
        <5>. QED
          BY <5>3 DEF Fault
      <4>. QED
        BY <4>1, <4>2
    <3>5. Asked /\ constructed => TypedQuantity(resource[1].quantity)
      BY <1>1, <2>2 DEF IInv, CrateTyped
    <3>6. Asked => constructed
      BY <1>1, <2>2 DEF IInv, CrateTyped
    <3>7. /\ TypedPolicy(policy)' /\ policy' = policy /\ resource' = resource
      BY <3>3 DEF Accept, TypedPolicy
    <3>. QED
      BY <1>2, <3>1, <3>2, <3>4, <3>5, <3>6, <3>7 DEF IInv, CrateTyped
  <2>. QED
    BY <2>1, <2>2
<1>6. DeciderStep(decider)
  BY DEF Accept, DeciderStep, IInv, TypeOK
<1>. QED
  BY <1>3, <1>4, <1>5, <1>6, StepOfOne

(* What the crate said of a policy it would not construct stays said.         *)
LEMMA RefusalStays ==
  ASSUME IInv, policy' = policy, constructed' = constructed, ~constructed,
         progress'["rust"] = progress["rust"], progress["rust"].status # "checking"
  PROVE  StateOK("rust")' /\ ProgressSound("rust")'
<1>0. "rust" \in Deciders
  BY DEF Deciders
<1>1. progress["rust"].status \in {"rejected", "not asked"}
  <2>1. StateOK("rust")
    BY <1>0 DEF IInv, TypeOK, StateOK
  <2>2. progress["rust"].status \in {"accepted", "not asked", "checking", "rejected"}
    BY <2>1, Statuses DEF StateOK
  <2>3. progress["rust"].status # "accepted"
    BY DEF IInv, CrateTyped
  <2>. QED
    BY <2>2, <2>3
<1>2. StateOK("rust")'
  <2>1. StateOK("rust")
    BY <1>0 DEF IInv, TypeOK, StateOK
  <2>2. \/ progress["rust"] \in {Accepted, NotAsked}
        \/ \E reason \in Reasons : progress["rust"] = Rejected(reason)
    BY <1>1, <2>1, Statuses DEF StateOK
  <2>. QED
    BY <2>2 DEF StateOK
<1>3. CASE progress["rust"].status = "not asked"
  BY <1>2, <1>3 DEF ProgressSound
<1>4. CASE progress["rust"].status = "rejected"
  <2>1. FirstFault(RustConstruction, progress["rust"].reason)
    BY <1>0, <1>4 DEF IInv, ProgressSound, VerdictChain
  <2>2. PICK n \in 1 .. 3 :
          /\ RustConstruction[n] = progress["rust"].reason
          /\ Fault(RustConstruction[n])
          /\ \A m \in 1 .. n - 1 : ~Fault(RustConstruction[m])
    BY <2>1, ChainLengths DEF FirstFault
  <2>3. \A m \in 1 .. 3 : Fault(RustConstruction[m])' = Fault(RustConstruction[m])
    <3>1. ASSUME NEW m \in 1 .. 3
          PROVE  Fault(RustConstruction[m])' = Fault(RustConstruction[m])
      <4>1. PICK check \in {"UnsupportedSchema", "InvalidValidityWindow",
                            "LifecycleMaximumMustBeOne"} : check = RustConstruction[m]
        BY DEF RustConstruction
      <4>2. /\ Fault(check) = PolicyFault(policy, check)
            /\ Fault(check)' = PolicyFault(policy, check)'
        BY PolicyChecks
      <4>3. PolicyFault(policy, check)' = PolicyFault(policy, check)
        BY DEF PolicyFault
      <4>. QED
        BY <4>1, <4>2, <4>3
    <3>. QED
      BY <3>1
  <2>4. VerdictChain("rust")' = RustConstruction
    BY DEF VerdictChain
  <2>5. FirstFault(VerdictChain("rust"), progress["rust"].reason)'
    <3>1. \A m \in 1 .. n - 1 : m \in 1 .. 3
      OBVIOUS
    <3>. QED
      BY <2>2, <2>3, <2>4, <3>1, ChainLengths DEF FirstFault
  <2>6. progress["rust"].status # "checking" /\ progress["rust"].status # "accepted"
    BY <1>4
  <2>7. ProgressSound("rust")'
    BY <2>5, <2>6 DEF ProgressSound
  <2>. QED
    BY <1>2, <2>7
<1>. QED
  BY <1>1, <1>2, <1>3, <1>4

LEMMA AskInv ==
  ASSUME IInv, NEW unit \in Units, NEW quantity \in Quantities, Ask(unit, quantity)
  PROVE  IInv'
<1>0. /\ policy' = policy /\ constructed' = constructed /\ constructed \in BOOLEAN
      /\ resource' = <<[unit |-> unit, quantity |-> quantity]>>
      /\ Asked' = TRUE
      /\ "rust" \in Deciders
      /\ DOMAIN progress' = Deciders
  BY DEF Ask, Asked, IInv, TypeOK, Deciders
<1>1. \A decider \in Deciders \ {"rust"} : progress'[decider] = Checking(1)
  BY DEF Ask
<1>2. \/ ~constructed /\ progress'["rust"] = progress["rust"]
      \/ constructed /\ ~TypedQuantity(quantity) /\ progress'["rust"] = NotAsked
      \/ constructed /\ TypedQuantity(quantity) /\ progress'["rust"] = Checking(1)
  BY <1>0 DEF Ask
<1>3. StateOK("rust")' /\ ProgressSound("rust")'
  <2>1. progress["rust"].status # "checking"
    BY <1>0 DEF Ask, Idle
  <2>. QED
    BY <1>0, <1>2, <2>1, RefusalStays, StartsSoundNext
<1>4. \A decider \in Deciders : StateOK(decider)' /\ ProgressSound(decider)'
  BY <1>1, <1>3, StartsSoundNext
<1>5. TypeOK'
  BY <1>0, <1>4 DEF TypeOK, StateOK, IInv
<1>6. CrateTyped'
  <2>1. \A decider \in Deciders \ {"rust"} : progress'[decider].status # "not asked"
    BY <1>1, Statuses
  <2>2. /\ TypedPolicy(policy)' = TypedPolicy(policy)
        /\ \A n : PolicyFault(policy, RustConstruction[n])'
                  = PolicyFault(policy, RustConstruction[n])
    BY <1>0 DEF TypedPolicy, PolicyFault, RustConstruction
  <2>3. resource'[1].quantity = quantity
    BY <1>0
  <2>4. CASE ~constructed
    <3>1. progress["rust"].status # "checking" /\ progress["rust"].status # "accepted"
      BY <1>0, <2>4 DEF Ask, Idle, IInv, CrateTyped
    <3>2. progress["rust"].status \in {"accepted", "not asked", "checking", "rejected"}
      <4>1. StateOK("rust")
        BY <1>0 DEF IInv, TypeOK, StateOK
      <4>. QED
        BY <4>1, Statuses DEF StateOK
    <3>3. progress'["rust"] = progress["rust"]
      BY <1>2, <2>4
    <3>. QED
      BY <1>0, <2>1, <2>2, <2>4, <3>1, <3>2, <3>3 DEF CrateTyped, IInv
  <2>5. CASE constructed
    <3>1. TypedQuantity(quantity) \/ progress'["rust"].status = "not asked"
      BY <1>2, <2>5, Statuses
    <3>2. TypedQuantity(resource[1].quantity)' = TypedQuantity(quantity)
      BY <2>3 DEF TypedQuantity
    <3>3. TypedPolicy(policy) /\ \A n \in 1 .. 3 : ~PolicyFault(policy, RustConstruction[n])
      BY <2>5 DEF IInv, CrateTyped
    <3>. QED
      BY <1>0, <2>1, <2>2, <2>5, <3>1, <3>2, <3>3 DEF CrateTyped
  <2>. QED
    BY <1>0, <2>4, <2>5
<1>. QED
  BY <1>4, <1>5, <1>6 DEF IInv

LEMMA UnchangedInv == IInv /\ UNCHANGED vars => IInv'
<1> SUFFICES ASSUME IInv, UNCHANGED vars
             PROVE  IInv'
  OBVIOUS
<1>1. \A decider \in Deciders : StateOK(decider)' /\ ProgressSound(decider)'
  BY OthersKeep DEF vars
<1>2. TypeOK'
  BY <1>1 DEF TypeOK, StateOK, IInv, vars
<1>3. CrateTyped'
  <2>1. /\ TypedPolicy(policy)' = TypedPolicy(policy)
        /\ \A n : PolicyFault(policy, RustConstruction[n])'
                  = PolicyFault(policy, RustConstruction[n])
        /\ TypedQuantity(resource[1].quantity)' = TypedQuantity(resource[1].quantity)
        /\ Asked' = Asked
    BY DEF TypedPolicy, PolicyFault, RustConstruction, TypedQuantity, Asked, vars
  <2>. QED
    BY <2>1 DEF CrateTyped, IInv, vars
<1>. QED
  BY <1>1, <1>2, <1>3 DEF IInv

(* Every chain has passed what it left behind; every verdict is its chain's.  *)
THEOREM Invariant == Spec => []IInv
<1>1. IInv /\ [Next]_vars => IInv'
  BY PassCheckInv, RejectCheckInv, AcceptInv, AskInv, UnchangedInv DEF Next
<1>. QED
  BY InitInv, <1>1, PTL DEF Spec

(* Deciders stay within their chains.                                         *)
THEOREM TypeCorrect == Spec => []TypeOK
<1>1. IInv => TypeOK
  BY DEF IInv
<1>. QED
  BY <1>1, Invariant, PTL
-----------------------------------------------------------------------------
(* The comparison.  The chain `small` lies in the chain `large` at rising     *)
(* places, and up to the last of these no other check of `large` fails.       *)
LiesIn(small, large, place) ==
  /\ place \in [1 .. Len(small) -> 1 .. Len(large)]
  /\ \A k \in 1 .. Len(small) : large[place[k]] = small[k]
  /\ \A k, l \in 1 .. Len(small) : k < l => place[k] < place[l]
  /\ \A n \in 1 .. Len(large) :
       (Fault(large[n]) /\ n <= place[Len(small)]) => \E k \in 1 .. Len(small) : n = place[k]

LEMMA SameFirstFault ==
  ASSUME NEW small \in Chains, NEW large \in Chains, NEW place,
         LiesIn(small, large, place),
         NEW first, FirstFault(small, first),
         NEW other, FirstFault(large, other)
  PROVE  first = other
<1>1. PICK k \in 1 .. Len(small) : /\ small[k] = first /\ Fault(first)
                                    /\ \A m \in 1 .. k - 1 : ~Fault(small[m])
  BY DEF FirstFault
<1>2. PICK n \in 1 .. Len(large) : /\ large[n] = other /\ Fault(other)
                                    /\ \A m \in 1 .. n - 1 : ~Fault(large[m])
  BY DEF FirstFault
<1>3. Len(small) \in Nat /\ Len(large) \in Nat
  BY ChainsShort
<1>4. /\ place[k] \in 1 .. Len(large) /\ place[Len(small)] \in 1 .. Len(large)
      /\ place[k] <= place[Len(small)]
  BY <1>3 DEF LiesIn
<1>5. n <= place[k]
  BY <1>1, <1>2, <1>3, <1>4 DEF LiesIn
<1>6. PICK l \in 1 .. Len(small) : n = place[l]
  BY <1>2, <1>3, <1>4, <1>5 DEF LiesIn
<1>7. small[l] = other
  BY <1>2, <1>6 DEF LiesIn
<1>8. ~(l < k)
  BY <1>1, <1>2, <1>3, <1>7
<1>9. ~(k < l)
  BY <1>3, <1>4, <1>5, <1>6 DEF LiesIn
<1>. QED
  BY <1>1, <1>3, <1>7, <1>8, <1>9

(* A chain with a first fault is not clean, nor is a chain it lies in.        *)
Clean(chain) == \A m \in 1 .. Len(chain) : ~Fault(chain[m])

LEMMA FaultNotClean ==
  ASSUME NEW small, NEW large, NEW place, LiesIn(small, large, place),
         NEW reason, FirstFault(small, reason)
  PROVE  ~Clean(small) /\ ~Clean(large)
<1>1. PICK k \in 1 .. Len(small) : small[k] = reason /\ Fault(reason)
  BY DEF FirstFault
<1>2. place[k] \in 1 .. Len(large) /\ large[place[k]] = reason
  BY <1>1 DEF LiesIn
<1>. QED
  BY <1>1, <1>2 DEF Clean

(* Types exclude the faults that the crate has no check for.                  *)
LEMMA TypesExclude ==
  /\ TypedPolicy(policy) => /\ ~Fault("UnsupportedMode") /\ ~Fault("EpochOutOfRange")
                            /\ ~Fault("MaximumOutOfRange")
  /\ (Asked => TypedQuantity(resource[1].quantity)) => ~Fault("QuantityOutOfRange")
<1>1. TypedPolicy(policy) => /\ ~Fault("UnsupportedMode") /\ ~Fault("EpochOutOfRange")
                            /\ ~Fault("MaximumOutOfRange")
  BY PolicyChecks DEF TypedPolicy
<1>2. (Asked => TypedQuantity(resource[1].quantity)) => ~Fault("QuantityOutOfRange")
  BY DEF Fault, PolicyFault, ResourceFault, TypedQuantity
<1>. QED
  BY <1>1, <1>2

(* The places of the crate's checks in the chains of the oracle.              *)
PlacesOfConstruction == [k \in 1 .. 3 |-> IF k = 1 THEN 1 ELSE IF k = 2 THEN 4 ELSE 6]
PlacesOfDimensions == [k \in 1 .. 4 |-> IF k = 1 THEN 7 ELSE k + 7]

LEMMA ConstructionLies ==
  ASSUME TypedPolicy(policy)
  PROVE  /\ LiesIn(RustConstruction, Rfc0003Construction, PlacesOfConstruction)
         /\ LiesIn(RustConstruction, Rfc0003Quantity, PlacesOfConstruction)
<1>1. /\ \A n \in 1 .. 6 : (Fault(Rfc0003Construction[n]) /\ n <= 6) => n \in {1, 4, 6}
      /\ \A n \in 1 .. 11 : (Fault(Rfc0003Quantity[n]) /\ n <= 6) => n \in {1, 4, 6}
  BY TypesExclude DEF Rfc0003Construction, Rfc0003Quantity
<1>2. /\ PlacesOfConstruction \in [1 .. 3 -> 1 .. 6]
      /\ PlacesOfConstruction \in [1 .. 3 -> 1 .. 11]
      /\ PlacesOfConstruction[1] = 1 /\ PlacesOfConstruction[2] = 4
      /\ PlacesOfConstruction[3] = 6
  BY DEF PlacesOfConstruction
<1>3. \A k \in 1 .. 3 :
        /\ Rfc0003Construction[PlacesOfConstruction[k]] = RustConstruction[k]
        /\ Rfc0003Quantity[PlacesOfConstruction[k]] = RustConstruction[k]
  BY <1>2 DEF Rfc0003Construction, Rfc0003Quantity, RustConstruction
<1>4. \A k, l \in 1 .. 3 : k < l => PlacesOfConstruction[k] < PlacesOfConstruction[l]
  BY <1>2
<1>5. \A n : n \in {1, 4, 6} => \E k \in 1 .. 3 : n = PlacesOfConstruction[k]
  BY <1>2
<1>. QED
  BY <1>1, <1>2, <1>3, <1>4, <1>5, ChainLengths DEF LiesIn

LEMMA DimensionsLie ==
  ASSUME TypedPolicy(policy), Asked => TypedQuantity(resource[1].quantity),
         \A n \in 1 .. 3 : ~PolicyFault(policy, RustConstruction[n])
  PROVE  LiesIn(RustDimensions, Rfc0003Quantity, PlacesOfDimensions)
<1>1. ~Fault("UnsupportedSchema") /\ ~Fault("InvalidValidityWindow")
      /\ ~Fault("LifecycleMaximumMustBeOne")
  BY PolicyChecks DEF RustConstruction
<1>2. \A n \in 1 .. 11 : Fault(Rfc0003Quantity[n]) => n \in {7, 9, 10, 11}
  BY <1>1, TypesExclude DEF Rfc0003Quantity
<1>3. /\ PlacesOfDimensions \in [1 .. 4 -> 1 .. 11]
      /\ PlacesOfDimensions[1] = 7 /\ PlacesOfDimensions[2] = 9
      /\ PlacesOfDimensions[3] = 10 /\ PlacesOfDimensions[4] = 11
  BY DEF PlacesOfDimensions
<1>4. \A k \in 1 .. 4 : Rfc0003Quantity[PlacesOfDimensions[k]] = RustDimensions[k]
  BY <1>3 DEF Rfc0003Quantity, RustDimensions
<1>5. \A k, l \in 1 .. 4 : k < l => PlacesOfDimensions[k] < PlacesOfDimensions[l]
  BY <1>3
<1>6. \A n : n \in {7, 9, 10, 11} => \E k \in 1 .. 4 : n = PlacesOfDimensions[k]
  BY <1>3
<1>. QED
  BY <1>2, <1>3, <1>4, <1>5, <1>6, ChainLengths DEF LiesIn

(* An idle decider has a verdict, which its chain bears out.                  *)
LEMMA Verdicts ==
  ASSUME IInv, NEW decider \in Deciders, progress[decider].status # "checking"
  PROVE  \/ progress[decider] = NotAsked
         \/ progress[decider] = Accepted /\ Clean(Chain(decider))
         \/ \E reason : /\ progress[decider] = Rejected(reason)
                        /\ FirstFault(VerdictChain(decider), reason)
<1>1. StateOK(decider) /\ ProgressSound(decider)
  BY DEF IInv, TypeOK, StateOK
<1>2. \/ progress[decider] \in {Accepted, NotAsked}
      \/ \E reason \in Reasons : progress[decider] = Rejected(reason)
  BY <1>1, Statuses DEF StateOK
<1>3. CASE progress[decider] = Accepted
  <2>1. Passed(decider, Len(Chain(decider)) + 1)
    BY <1>1, <1>3, Statuses DEF ProgressSound
  <2>2. Len(Chain(decider)) \in Nat
    BY ChainIsOneOf, ChainsShort
  <2>3. Clean(Chain(decider))
    BY <2>1, <2>2 DEF Passed, Clean
  <2>. QED
    BY <1>3, <2>3
<1>4. ASSUME NEW reason, progress[decider] = Rejected(reason)
      PROVE  FirstFault(VerdictChain(decider), reason)
  BY <1>1, <1>4, Statuses DEF ProgressSound
<1>. QED
  BY <1>2, <1>3, <1>4

(* The oracle's verdict on a chain in which the crate's chain lies.           *)
LEMMA SameVerdict ==
  ASSUME IInv, Idle, progress["rust"] # NotAsked,
         NEW small \in Chains, NEW place, LiesIn(small, Chain("rfc0003"), place),
         VerdictChain("rust") = small,
         progress["rust"] = Accepted => Clean(Chain("rfc0003"))
  PROVE  progress["rust"] = progress["rfc0003"]
<1>1. /\ "rust" \in Deciders /\ "rfc0003" \in Deciders
      /\ Chain("rfc0003") \in Chains
      /\ VerdictChain("rfc0003") = Chain("rfc0003")
  BY ChainIsOneOf DEF Deciders, VerdictChain
<1>2. progress["rfc0003"] # NotAsked
  <2>1. progress["rfc0003"].status # "not asked"
    BY <1>1 DEF IInv, CrateTyped
  <2>. QED
    BY <2>1, Statuses
<1>3. \/ progress["rfc0003"] = Accepted /\ Clean(Chain("rfc0003"))
      \/ \E reason : /\ progress["rfc0003"] = Rejected(reason)
                     /\ FirstFault(Chain("rfc0003"), reason)
  BY <1>1, <1>2, Verdicts DEF Idle
<1>4. \/ progress["rust"] = Accepted
      \/ \E reason : progress["rust"] = Rejected(reason) /\ FirstFault(small, reason)
  BY <1>1, Verdicts DEF Idle
<1>5. CASE progress["rust"] = Accepted
  <2>1. Clean(Chain("rfc0003"))
    BY <1>5
  <2>2. \A reason : ~FirstFault(Chain("rfc0003"), reason)
    BY <2>1 DEF Clean, FirstFault
  <2>. QED
    BY <1>3, <1>5, <2>2
<1>6. ASSUME NEW reason, progress["rust"] = Rejected(reason), FirstFault(small, reason)
      PROVE  progress["rust"] = progress["rfc0003"]
  <2>1. ~Clean(Chain("rfc0003"))
    BY <1>6, FaultNotClean
  <2>2. PICK other : /\ progress["rfc0003"] = Rejected(other)
                     /\ FirstFault(Chain("rfc0003"), other)
    BY <1>3, <2>1
  <2>3. reason = other
    BY <1>1, <1>6, <2>2, SameFirstFault
  <2>. QED
    BY <1>6, <2>2, <2>3
<1>. QED
  BY <1>4, <1>5, <1>6

(* When the crate constructed or refused a policy, the types held.            *)
LEMMA CrateFacts ==
  ASSUME IInv, progress["rust"] # NotAsked
  PROVE  /\ TypedPolicy(policy)
         /\ constructed => /\ Asked => TypedQuantity(resource[1].quantity)
                           /\ \A n \in 1 .. 3 : ~PolicyFault(policy, RustConstruction[n])
<1>1. StateOK("rust")
  BY DEF IInv, TypeOK, StateOK, Deciders
<1>2. progress["rust"].status # "not asked"
  BY <1>1, Statuses DEF StateOK
<1>. QED
  BY <1>2 DEF IInv, CrateTyped

(* Clean for the crate is clean for the oracle: it has no check of its own    *)
(* that a value of the crate's types fails.                                   *)
LEMMA CleanForOracle ==
  ASSUME IInv, Idle, progress["rust"] = Accepted
  PROVE  Clean(Chain("rfc0003")) /\ Clean(Chain("earlier"))
<1>1. Clean(Chain("rust"))
  <2>1. progress["rust"] # NotAsked /\ \A reason : progress["rust"] # Rejected(reason)
    BY Statuses
  <2>. QED
    BY <2>1, Verdicts DEF Idle, Deciders
<1>2. progress["rust"] # NotAsked
  BY Statuses
<1>3. TypedPolicy(policy)
  BY <1>2, CrateFacts
<1>4. CASE ~Asked
  <2>1. /\ Chain("rust") = RustConstruction /\ Chain("rfc0003") = Rfc0003Construction
        /\ Chain("earlier") = EarlierConstruction
    BY <1>4 DEF Chain
  <2>2. ~Fault("UnsupportedSchema") /\ ~Fault("InvalidValidityWindow")
        /\ ~Fault("LifecycleMaximumMustBeOne")
    <3>1. /\ RustConstruction[1] = "UnsupportedSchema"
          /\ RustConstruction[2] = "InvalidValidityWindow"
          /\ RustConstruction[3] = "LifecycleMaximumMustBeOne"
      BY DEF RustConstruction
    <3>. QED
      BY <1>1, <2>1, <3>1, ChainLengths DEF Clean
  <2>3. \A n \in 1 .. 6 : ~Fault(Rfc0003Construction[n])
    BY <1>3, <2>2, TypesExclude DEF Rfc0003Construction
  <2>4. \A n \in 1 .. 5 : ~Fault(EarlierConstruction[n])
    BY <1>3, <2>2, TypesExclude DEF EarlierConstruction
  <2>. QED
    BY <2>1, <2>3, <2>4, ChainLengths DEF Clean
<1>5. CASE Asked
  <2>1. /\ Chain("rust") = RustDimensions /\ Chain("rfc0003") = Rfc0003Quantity
        /\ Chain("earlier") = EarlierQuantity
    BY <1>5 DEF Chain
  <2>2. constructed
    BY <1>5, Statuses DEF IInv, CrateTyped
  <2>3. ~Fault("UnsupportedSchema") /\ ~Fault("InvalidValidityWindow")
        /\ ~Fault("LifecycleMaximumMustBeOne")
    BY <1>2, <2>2, CrateFacts, PolicyChecks DEF RustConstruction
  <2>4. /\ ~Fault("UnitMismatch") /\ ~Fault("LifecycleQuantityMustBeOne")
        /\ ~Fault("ZeroQuantity") /\ ~Fault("ExceedsMaximum")
    <3>1. /\ RustDimensions[1] = "UnitMismatch"
          /\ RustDimensions[2] = "LifecycleQuantityMustBeOne"
          /\ RustDimensions[3] = "ZeroQuantity" /\ RustDimensions[4] = "ExceedsMaximum"
      BY DEF RustDimensions
    <3>. QED
      BY <1>1, <2>1, <3>1, ChainLengths DEF Clean
  <2>5. ~Fault("QuantityOutOfRange")
    BY <1>2, <2>2, CrateFacts, TypesExclude
  <2>6. \A n \in 1 .. 11 : ~Fault(Rfc0003Quantity[n])
    BY <1>3, <2>3, <2>4, <2>5, TypesExclude DEF Rfc0003Quantity
  <2>7. \A n \in 1 .. 10 : ~Fault(EarlierQuantity[n])
    BY <1>3, <2>3, <2>4, <2>5, TypesExclude DEF EarlierQuantity
  <2>. QED
    BY <2>1, <2>6, <2>7, ChainLengths DEF Clean
<1>. QED
  BY <1>4, <1>5

(* The crate decides as the oracle of RFC-0003 does, for the same reasons.    *)
THEOREM AgreementWithRfc0003 == Spec => []AgreesWithRfc0003
<1>1. ASSUME IInv PROVE AgreesWithRfc0003
  <2>1. SUFFICES ASSUME Idle, progress["rust"] # NotAsked
                 PROVE  progress["rust"] = progress["rfc0003"]
    BY DEF AgreesWithRfc0003
  <2>2. progress["rust"] = Accepted => Clean(Chain("rfc0003"))
    BY <1>1, <2>1, CleanForOracle
  <2>3. CASE ~Asked \/ ~constructed
    <3>1. VerdictChain("rust") = RustConstruction
      BY <2>3 DEF VerdictChain, Chain
    <3>2. Chain("rfc0003") \in {Rfc0003Construction, Rfc0003Quantity}
      BY DEF Chain
    <3>3. LiesIn(RustConstruction, Chain("rfc0003"), PlacesOfConstruction)
      BY <1>1, <2>1, <3>2, CrateFacts, ConstructionLies
    <3>4. RustConstruction \in Chains
      BY DEF Chains
    <3>. QED
      BY <1>1, <2>1, <2>2, <3>1, <3>3, <3>4, SameVerdict
  <2>4. CASE Asked /\ constructed
    <3>1. VerdictChain("rust") = RustDimensions /\ Chain("rfc0003") = Rfc0003Quantity
      BY <2>4 DEF VerdictChain, Chain
    <3>2. LiesIn(RustDimensions, Chain("rfc0003"), PlacesOfDimensions)
      BY <1>1, <2>1, <2>4, <3>1, CrateFacts, DimensionsLie
    <3>3. RustDimensions \in Chains
      BY DEF Chains
    <3>. QED
      BY <1>1, <2>1, <2>2, <3>1, <3>2, <3>3, SameVerdict
  <2>. QED
    BY <2>3, <2>4
<1>. QED
  BY <1>1, Invariant, PTL

(* The crate admits just the resources of the derived relation.               *)
THEOREM Admission == Spec => []AdmitsExactly
<1>1. ASSUME IInv PROVE AdmitsExactly
  <2>1. SUFFICES ASSUME Asked, constructed
                 PROVE  /\ progress["rust"] = Accepted => Admissible(policy, resource[1])
                        /\ progress["rust"].status = "rejected"
                              => ~Admissible(policy, resource[1])
    BY DEF AdmitsExactly
  <2>2. /\ Chain("rust") = RustDimensions /\ VerdictChain("rust") = RustDimensions
        /\ "rust" \in Deciders
    BY <2>1 DEF Chain, VerdictChain, Deciders
  <2>3. \A check \in {"UnitMismatch", "LifecycleQuantityMustBeOne", "ZeroQuantity",
                      "ExceedsMaximum"} :
          Fault(check) <=> ResourceFault(policy, resource[1], check)
    BY <2>1 DEF Fault, PolicyFault
  <2>4. policy.maximum \in Int /\ resource[1].quantity \in Int
    <3>1. PICK unit \in Units, quantity \in Quantities :
            resource = <<[unit |-> unit, quantity |-> quantity]>>
      BY <1>1, <2>1 DEF IInv, TypeOK, Asked
    <3>2. resource[1].quantity = quantity
      BY <3>1
    <3>3. policy \in Policies
      BY <1>1 DEF IInv, TypeOK
    <3>. QED
      BY <3>2, <3>3, CandidatesAssumption
  <2>5. ASSUME progress["rust"] = Accepted
        PROVE  Admissible(policy, resource[1])
    <3>1. Clean(RustDimensions)
      <4>1. progress["rust"].status # "checking" /\ progress["rust"] # NotAsked
            /\ \A reason : progress["rust"] # Rejected(reason)
        BY <2>5, Statuses
      <4>. QED
        BY <1>1, <2>2, <4>1, Verdicts
    <3>2. /\ ~Fault("UnitMismatch") /\ ~Fault("LifecycleQuantityMustBeOne")
          /\ ~Fault("ZeroQuantity") /\ ~Fault("ExceedsMaximum")
      <4>1. /\ RustDimensions[1] = "UnitMismatch"
            /\ RustDimensions[2] = "LifecycleQuantityMustBeOne"
            /\ RustDimensions[3] = "ZeroQuantity" /\ RustDimensions[4] = "ExceedsMaximum"
        BY DEF RustDimensions
      <4>. QED
        BY <3>1, <4>1, ChainLengths DEF Clean
    <3>3. resource[1].quantity \in 0 .. WideMax
      BY <1>1, <2>1, <2>5, Statuses DEF IInv, CrateTyped, TypedQuantity
    <3>. QED
      BY <2>3, <2>4, <3>2, <3>3, BoundsAssumption DEF Admissible, ResourceFault
  <2>6. ASSUME progress["rust"].status = "rejected"
        PROVE  ~Admissible(policy, resource[1])
    <3>1. FirstFault(RustDimensions, progress["rust"].reason)
      BY <1>1, <2>2, <2>6 DEF IInv, ProgressSound
    <3>2. PICK n \in 1 .. 4 : Fault(RustDimensions[n])
      BY <3>1, ChainLengths DEF FirstFault
    <3>3. PICK check \in {"UnitMismatch", "LifecycleQuantityMustBeOne", "ZeroQuantity",
                          "ExceedsMaximum"} : Fault(check)
      BY <3>2 DEF RustDimensions
    <3>. QED
      BY <2>3, <2>4, <3>3 DEF Admissible, ResourceFault
  <2>. QED
    BY <2>5, <2>6
<1>. QED
  BY <1>1, Invariant, PTL

(* The crate departs from the earlier oracle only where RFC-0003 narrows it.  *)
THEOREM Narrowing == Spec => []NarrowsLifecycleOnly
<1>1. ASSUME IInv PROVE NarrowsLifecycleOnly
  <2>1. SUFFICES ASSUME Idle, progress["rust"] # NotAsked,
                        progress["rust"].status # progress["earlier"].status
                 PROVE  /\ progress["rust"].status = "rejected"
                        /\ policy.mode = "LifecycleNonFungible" /\ policy.maximum # 1
    BY DEF NarrowsLifecycleOnly
  <2>2. /\ "rust" \in Deciders /\ "earlier" \in Deciders
        /\ VerdictChain("earlier") = Chain("earlier")
        /\ progress["earlier"] # NotAsked
    <3>1. "earlier" \in Deciders \ {"rust"}
      BY DEF Deciders
    <3>2. progress["earlier"].status # "not asked"
      BY <1>1, <3>1 DEF IInv, CrateTyped
    <3>. QED
      BY <3>1, <3>2, Statuses DEF Deciders, VerdictChain
  <2>3. progress["rust"] # Accepted
    <3>1. SUFFICES ASSUME progress["rust"] = Accepted PROVE FALSE
      OBVIOUS
    <3>2. Clean(Chain("earlier"))
      BY <1>1, <2>1, <3>1, CleanForOracle
    <3>3. \A reason : ~FirstFault(Chain("earlier"), reason)
      BY <3>2 DEF Clean, FirstFault
    <3>4. progress["earlier"] = Accepted
      BY <1>1, <2>1, <2>2, <3>3, Verdicts DEF Idle
    <3>. QED
      BY <2>1, <3>1, <3>4
  <2>4. PICK reason : /\ progress["rust"] = Rejected(reason)
                      /\ FirstFault(VerdictChain("rust"), reason)
    BY <1>1, <2>1, <2>2, <2>3, Verdicts DEF Idle
  <2>5. progress["earlier"] = Accepted /\ Clean(Chain("earlier"))
    <3>1. \A other : progress["earlier"] # Rejected(other)
      BY <2>1, <2>4, Statuses
    <3>. QED
      BY <1>1, <2>1, <2>2, <3>1, Verdicts DEF Idle
  <2>6. reason = "LifecycleMaximumMustBeOne" /\ Fault(reason)
    <3>1. CASE Asked /\ constructed
      <4>1. VerdictChain("rust") = RustDimensions /\ Chain("earlier") = EarlierQuantity
        BY <3>1 DEF VerdictChain, Chain
      <4>2. /\ EarlierQuantity[6] = "UnitMismatch" /\ EarlierQuantity[8] = "ZeroQuantity"
            /\ EarlierQuantity[9] = "ExceedsMaximum"
            /\ EarlierQuantity[10] = "LifecycleQuantityMustBeOne"
        BY DEF EarlierQuantity
      <4>3. /\ ~Fault("UnitMismatch") /\ ~Fault("LifecycleQuantityMustBeOne")
            /\ ~Fault("ZeroQuantity") /\ ~Fault("ExceedsMaximum")
        BY <2>5, <4>1, <4>2, ChainLengths DEF Clean
      <4>4. \A n \in 1 .. 4 : ~Fault(RustDimensions[n])
        BY <4>3 DEF RustDimensions
      <4>. QED
        BY <2>4, <4>1, <4>4, ChainLengths DEF FirstFault
    <3>2. CASE ~Asked \/ ~constructed
      <4>1. VerdictChain("rust") = RustConstruction
            /\ Chain("earlier") \in {EarlierConstruction, EarlierQuantity}
        BY <3>2 DEF VerdictChain, Chain
      <4>2. /\ EarlierConstruction[1] = "UnsupportedSchema"
            /\ EarlierConstruction[4] = "InvalidValidityWindow"
            /\ EarlierQuantity[1] = "UnsupportedSchema"
            /\ EarlierQuantity[4] = "InvalidValidityWindow"
        BY DEF EarlierConstruction, EarlierQuantity
      <4>3. ~Fault("UnsupportedSchema") /\ ~Fault("InvalidValidityWindow")
        BY <2>5, <4>1, <4>2, ChainLengths DEF Clean
      <4>4. PICK n \in 1 .. 3 : RustConstruction[n] = reason /\ Fault(reason)
        BY <2>4, <4>1, ChainLengths DEF FirstFault
      <4>. QED
        BY <4>3, <4>4 DEF RustConstruction
    <3>. QED
      BY <3>1, <3>2
  <2>7. PolicyFault(policy, "LifecycleMaximumMustBeOne")
    BY <2>6, PolicyChecks
  <2>. QED
    BY <2>4, <2>7, Statuses DEF PolicyFault
<1>. QED
  BY <1>1, Invariant, PTL
=============================================================================
