------------------------- MODULE RemoteClientProofs -------------------------
(***************************************************************************)
(* Proofs about RemoteClient, for any number of calls, any budgets,        *)
(* pauses and margin, and any refresh window no shorter than a budget.     *)
(***************************************************************************)
EXTENDS RemoteClient, TLAPS

LEMMA InitIInv == Init => IInv
<1> SUFFICES ASSUME Init PROVE IInv
  OBVIOUS
<1> USE TimeAssumption DEF Init
<1>1. TypeOK
  <2>1. inFlight \in BOOLEAN
    OBVIOUS
  <2>2. cached \in Int /\ flights \in Nat /\ now \in Nat
    OBVIOUS
  <2> QED BY <2>1, <2>2 DEF TypeOK
<1>2. ReturnsInTime /\ WaitInv /\ SendInv
  BY DEF ReturnsInTime, WaitInv, SendInv, Live
<1>3. HitInv /\ OneRefresh
  BY DEF HitInv, OneRefresh
<1> QED BY <1>1, <1>2, <1>3 DEF IInv

LEMMA TickKeeps ==
  ASSUME IInv, Tick
  PROVE  IInv'
<1> USE OpAssumption, TimeAssumption DEF IInv, TypeOK, Live,
       Tick, credVars, callVars, Abortable, Late
<1>1. TypeOK'
  BY DEF WaitInv
<1>2. ReturnsInTime'
  BY DEF ReturnsInTime, WaitInv
<1>3. WaitInv'
  BY DEF WaitInv
<1>4. SendInv'
  BY DEF SendInv, WaitInv
<1>5. HitInv'
  BY DEF HitInv, WaitInv
<1>6. OneRefresh'
  BY DEF OneRefresh
<1> QED BY <1>1, <1>2, <1>3, <1>4, <1>5, <1>6

LEMMA RefreshSucceedsKeeps ==
  ASSUME IInv, RefreshSucceeds
  PROVE  IInv'
<1> USE OpAssumption, TimeAssumption DEF IInv, TypeOK, Live,
       RefreshSucceeds, Settle, Waiting
<1>1. TypeOK'
  <2>1. inFlight' \in BOOLEAN
    OBVIOUS
  <2>2. flights' \in Nat /\ cached' \in Int
    OBVIOUS
  <2>3. pc' \in [Call -> {"idle", "attempt", "credentials", "sign", "http", "pause", "returned"}]
    OBVIOUS
  <2>4. cred' \in [Call -> Int] /\ from' \in [Call -> {"none", "hit", "refresh", "fallback"}]
    OBVIOUS
  <2> QED BY <2>1, <2>2, <2>3, <2>4
<1>2. ReturnsInTime'
  BY DEF ReturnsInTime, WaitInv
<1>3. WaitInv'
  <2> SUFFICES ASSUME NEW e \in Call
               PROVE  /\ Live(e)' => op'[e] \in Op /\ deadline'[e] <= now' + Window
                      /\ pc'[e] = "credentials" => inFlight'
                      /\ pc'[e] = "pause" =>
                           /\ now' <= wake'[e] /\ wake'[e] + Margin < deadline'[e]
                           /\ attempt'[e] < MaxRetries /\ op'[e] = "retrieve"
    BY DEF WaitInv
  <2>1. Live(e)' => op'[e] \in Op /\ deadline'[e] <= now' + Window
    BY DEF WaitInv
  <2>2. pc'[e] = "credentials" => inFlight'
    BY DEF WaitInv
  <2>3. pc'[e] = "pause" =>
           /\ now' <= wake'[e] /\ wake'[e] + Margin < deadline'[e]
           /\ attempt'[e] < MaxRetries /\ op'[e] = "retrieve"
    BY DEF WaitInv
  <2> QED BY <2>1, <2>2, <2>3
<1>4. SendInv'
  BY DEF SendInv, WaitInv
<1>5. HitInv'
  BY DEF HitInv, WaitInv
<1>6. OneRefresh'
  BY DEF OneRefresh
<1> QED BY <1>1, <1>2, <1>3, <1>4, <1>5, <1>6

LEMMA RefreshFallsBackKeeps ==
  ASSUME IInv, RefreshFallsBack
  PROVE  IInv'
<1> USE OpAssumption, TimeAssumption DEF IInv, TypeOK, Live,
       RefreshFallsBack, Settle, Waiting, Usable
<1>1. TypeOK'
  <2>1. inFlight' \in BOOLEAN
    OBVIOUS
  <2>2. flights' \in Nat /\ cached' \in Int
    OBVIOUS
  <2>3. pc' \in [Call -> {"idle", "attempt", "credentials", "sign", "http", "pause", "returned"}]
    OBVIOUS
  <2>4. cred' \in [Call -> Int] /\ from' \in [Call -> {"none", "hit", "refresh", "fallback"}]
    OBVIOUS
  <2> QED BY <2>1, <2>2, <2>3, <2>4
<1>2. ReturnsInTime'
  BY DEF ReturnsInTime, WaitInv
<1>3. WaitInv'
  <2> SUFFICES ASSUME NEW e \in Call
               PROVE  /\ Live(e)' => op'[e] \in Op /\ deadline'[e] <= now' + Window
                      /\ pc'[e] = "credentials" => inFlight'
                      /\ pc'[e] = "pause" =>
                           /\ now' <= wake'[e] /\ wake'[e] + Margin < deadline'[e]
                           /\ attempt'[e] < MaxRetries /\ op'[e] = "retrieve"
    BY DEF WaitInv
  <2>1. Live(e)' => op'[e] \in Op /\ deadline'[e] <= now' + Window
    BY DEF WaitInv
  <2>2. pc'[e] = "credentials" => inFlight'
    BY DEF WaitInv
  <2>3. pc'[e] = "pause" =>
           /\ now' <= wake'[e] /\ wake'[e] + Margin < deadline'[e]
           /\ attempt'[e] < MaxRetries /\ op'[e] = "retrieve"
    BY DEF WaitInv
  <2> QED BY <2>1, <2>2, <2>3
<1>4. SendInv'
  BY DEF SendInv, WaitInv
<1>5. HitInv'
  BY DEF HitInv, WaitInv
<1>6. OneRefresh'
  BY DEF OneRefresh
<1> QED BY <1>1, <1>2, <1>3, <1>4, <1>5, <1>6

LEMMA RefreshFailsKeeps ==
  ASSUME IInv, RefreshFails
  PROVE  IInv'
<1> USE OpAssumption, TimeAssumption DEF IInv, TypeOK, Live,
       RefreshFails, Waiting
<1>1. TypeOK'
  <2>1. inFlight' \in BOOLEAN
    OBVIOUS
  <2>2. flights' \in Nat /\ cached' \in Int
    OBVIOUS
  <2>3. pc' \in [Call -> {"idle", "attempt", "credentials", "sign", "http", "pause", "returned"}]
    OBVIOUS
  <2>4. cred' \in [Call -> Int] /\ from' \in [Call -> {"none", "hit", "refresh", "fallback"}]
    OBVIOUS
  <2> QED BY <2>1, <2>2, <2>3, <2>4
<1>2. ReturnsInTime'
  BY DEF ReturnsInTime, WaitInv
<1>3. WaitInv'
  <2> SUFFICES ASSUME NEW e \in Call
               PROVE  /\ Live(e)' => op'[e] \in Op /\ deadline'[e] <= now' + Window
                      /\ pc'[e] = "credentials" => inFlight'
                      /\ pc'[e] = "pause" =>
                           /\ now' <= wake'[e] /\ wake'[e] + Margin < deadline'[e]
                           /\ attempt'[e] < MaxRetries /\ op'[e] = "retrieve"
    BY DEF WaitInv
  <2>1. Live(e)' => op'[e] \in Op /\ deadline'[e] <= now' + Window
    BY DEF WaitInv
  <2>2. pc'[e] = "credentials" => inFlight'
    BY DEF WaitInv
  <2>3. pc'[e] = "pause" =>
           /\ now' <= wake'[e] /\ wake'[e] + Margin < deadline'[e]
           /\ attempt'[e] < MaxRetries /\ op'[e] = "retrieve"
    BY DEF WaitInv
  <2> QED BY <2>1, <2>2, <2>3
<1>4. SendInv'
  BY DEF SendInv, WaitInv
<1>5. HitInv'
  BY DEF HitInv, WaitInv
<1>6. OneRefresh'
  BY DEF OneRefresh
<1> QED BY <1>1, <1>2, <1>3, <1>4, <1>5, <1>6

LEMMA BeginKeeps ==
  ASSUME IInv, NEW c \in Call, Begin(c)
  PROVE  IInv'
<1> USE OpAssumption, TimeAssumption DEF IInv, TypeOK, Live,
       Begin, Goto, credVars, Return
<1>1. TypeOK'
  BY DEF WaitInv
<1>2. ReturnsInTime'
  BY DEF ReturnsInTime, WaitInv
<1>3. WaitInv'
  BY WindowAssumption DEF WaitInv
<1>4. SendInv'
  BY DEF SendInv, WaitInv
<1>5. HitInv'
  BY DEF HitInv, WaitInv
<1>6. OneRefresh'
  BY DEF OneRefresh
<1> QED BY <1>1, <1>2, <1>3, <1>4, <1>5, <1>6

LEMMA StartAttemptKeeps ==
  ASSUME IInv, NEW c \in Call, StartAttempt(c)
  PROVE  IInv'
<1> USE OpAssumption, TimeAssumption DEF IInv, TypeOK, Live,
       StartAttempt, Goto, credVars, Return, Late, Fresh
<1>1. TypeOK'
  <2>1. inFlight' \in BOOLEAN
    OBVIOUS
  <2>2. flights' \in Nat /\ cached' \in Int
    OBVIOUS
  <2>3. pc' \in [Call -> {"idle", "attempt", "credentials", "sign", "http", "pause", "returned"}]
    OBVIOUS
  <2>4. cred' \in [Call -> Int] /\ from' \in [Call -> {"none", "hit", "refresh", "fallback"}]
    OBVIOUS
  <2> QED BY <2>1, <2>2, <2>3, <2>4
<1>2. ReturnsInTime'
  BY DEF ReturnsInTime, WaitInv
<1>3. WaitInv'
  <2> SUFFICES ASSUME NEW e \in Call
               PROVE  /\ Live(e)' => op'[e] \in Op /\ deadline'[e] <= now' + Window
                      /\ pc'[e] = "credentials" => inFlight'
                      /\ pc'[e] = "pause" =>
                           /\ now' <= wake'[e] /\ wake'[e] + Margin < deadline'[e]
                           /\ attempt'[e] < MaxRetries /\ op'[e] = "retrieve"
    BY DEF WaitInv
  <2>1. Live(e)' => op'[e] \in Op /\ deadline'[e] <= now' + Window
    BY DEF WaitInv
  <2>2. pc'[e] = "credentials" => inFlight'
    BY DEF WaitInv
  <2>3. pc'[e] = "pause" =>
           /\ now' <= wake'[e] /\ wake'[e] + Margin < deadline'[e]
           /\ attempt'[e] < MaxRetries /\ op'[e] = "retrieve"
    BY DEF WaitInv
  <2> QED BY <2>1, <2>2, <2>3
<1>4. SendInv'
  BY DEF SendInv, WaitInv
<1>5. HitInv'
  BY DEF HitInv, WaitInv
<1>6. OneRefresh'
  BY DEF OneRefresh
<1> QED BY <1>1, <1>2, <1>3, <1>4, <1>5, <1>6

LEMMA AbortKeeps ==
  ASSUME IInv, NEW c \in Call, Abort(c)
  PROVE  IInv'
<1> USE OpAssumption, TimeAssumption DEF IInv, TypeOK, Live,
       Abort, Goto, Abortable, Late, Return, LeaveRefresh, Drop
<1>1. TypeOK'
  BY DEF WaitInv
<1>2. ReturnsInTime'
  BY DEF ReturnsInTime, WaitInv
<1>3. WaitInv'
  BY DEF WaitInv
<1>4. SendInv'
  BY DEF SendInv, WaitInv
<1>5. HitInv'
  BY DEF HitInv, WaitInv
<1>6. OneRefresh'
  BY DEF OneRefresh
<1> QED BY <1>1, <1>2, <1>3, <1>4, <1>5, <1>6

LEMMA SendKeeps ==
  ASSUME IInv, NEW c \in Call, Send(c)
  PROVE  IInv'
<1> USE OpAssumption, TimeAssumption DEF IInv, TypeOK, Live,
       Send, Goto, credVars, Late, Return, Drop
<1>1. TypeOK'
  BY DEF WaitInv
<1>2. ReturnsInTime'
  BY DEF ReturnsInTime, WaitInv
<1>3. WaitInv'
  BY DEF WaitInv
<1>4. SendInv'
  BY DEF SendInv, WaitInv
<1>5. HitInv'
  BY DEF HitInv, WaitInv
<1>6. OneRefresh'
  BY DEF OneRefresh
<1> QED BY <1>1, <1>2, <1>3, <1>4, <1>5, <1>6

LEMMA ReceiveKeeps ==
  ASSUME IInv, NEW c \in Call, Receive(c)
  PROVE  IInv'
<1> USE OpAssumption, TimeAssumption DEF IInv, TypeOK, Live,
       Receive, Goto, credVars, Late, Return, Drop, RetryOr, Retries, Fits, Longer
<1>1. TypeOK'
  BY DEF WaitInv
<1>2. ReturnsInTime'
  BY DEF ReturnsInTime, WaitInv
<1>3. WaitInv'
  BY DEF WaitInv
<1>4. SendInv'
  BY DEF SendInv, WaitInv
<1>5. HitInv'
  BY DEF HitInv, WaitInv
<1>6. OneRefresh'
  BY DEF OneRefresh
<1> QED BY <1>1, <1>2, <1>3, <1>4, <1>5, <1>6

LEMMA WakeKeeps ==
  ASSUME IInv, NEW c \in Call, Wake(c)
  PROVE  IInv'
<1> USE OpAssumption, TimeAssumption DEF IInv, TypeOK, Live,
       Wake, Goto, credVars
<1>1. TypeOK'
  BY DEF WaitInv
<1>2. ReturnsInTime'
  BY DEF ReturnsInTime, WaitInv
<1>3. WaitInv'
  BY DEF WaitInv
<1>4. SendInv'
  BY DEF SendInv, WaitInv
<1>5. HitInv'
  BY DEF HitInv, WaitInv
<1>6. OneRefresh'
  BY DEF OneRefresh
<1> QED BY <1>1, <1>2, <1>3, <1>4, <1>5, <1>6

LEMMA StutterKeeps ==
  ASSUME IInv, UNCHANGED vars
  PROVE  IInv'
BY DEF vars, credVars, callVars, IInv, TypeOK, Live, ReturnsInTime, WaitInv, SendInv, HitInv, OneRefresh

\* Type correctness and the inductive invariant, whatever STS and the service do.
THEOREM Invariance == Spec => []IInv
<1>1. IInv /\ [Next]_vars => IInv'
  BY TickKeeps, RefreshSucceedsKeeps, RefreshFallsBackKeeps, RefreshFailsKeeps, BeginKeeps,
     StartAttemptKeeps, AbortKeeps, SendKeeps, ReceiveKeeps, WakeKeeps, StutterKeeps
     DEF Next, Step
<1> QED BY InitIInv, <1>1, PTL DEF Spec

\* No call outlasts its deadline less the safety margin.
THEOREM InTime == Spec => []ReturnsInTime
<1>1. IInv => ReturnsInTime
  BY DEF IInv
<1> QED BY Invariance, <1>1, PTL

\* One generate or answer is one request.
THEOREM Once == Spec => []PaidOnce
<1>1. IInv => PaidOnce
  <2> SUFFICES ASSUME IInv, NEW c \in Call
               PROVE  sends[c] <= (IF op[c] = "retrieve" THEN MaxRetries + 1 ELSE 1)
    BY DEF PaidOnce
  <2>1. sends[c] <= attempt[c] + 1 /\ (op[c] # "retrieve" => attempt[c] = 0)
    BY DEF IInv, SendInv
  <2>2. sends[c] \in Nat /\ attempt[c] \in 0..MaxRetries
    BY DEF IInv, TypeOK
  <2> QED BY <2>1, <2>2, TimeAssumption
<1> QED BY Invariance, <1>1, PTL

\* A cached session that is used outlives the request it signs.
THEOREM SessionHolds == Spec => []SessionOutlivesTheRequest
<1>1. IInv => SessionOutlivesTheRequest
  BY DEF IInv, HitInv, SessionOutlivesTheRequest
<1> QED BY Invariance, <1>1, PTL

\* One AssumeRole at a time, whoever gives up waiting for it.
THEOREM SingleFlight == Spec => []OneRefresh
<1>1. IInv => OneRefresh
  BY DEF IInv
<1> QED BY Invariance, <1>1, PTL

\* The shared session is made once and outlives its requests.
THEOREM SoundSession == Spec => []SessionIsSound
BY SessionHolds, SingleFlight, PTL DEF SessionIsSound

=============================================================================
