---------------------------- MODULE AccountsProofs ----------------------------
(***************************************************************************)
(* Proofs about one phone's account, for any number of concurrent requests *)
(* and any number of failed calls:                                         *)
(*   - AccountTyped: the type invariant;                                   *)
(*   - ToldIsTrue: what the user was told stays so;                        *)
(*   - PanicsAreRaces: when the process may die;                           *)
(*   - KeysAreKept: an import keeps the key it replaces.                   *)
(***************************************************************************)
EXTENDS Accounts, TLAPS

(* The two counters, which need arithmetic, and the rest of the type       *)
(* invariant, which does not.                                              *)
Counts == hits \in 0..Limit + 1 /\ faults \in 0..MaxFaults

Shape ==
    /\ at \in [Requests -> Stages]
    /\ held \in [Requests -> Keys]
    /\ {deadline, row, pinSet, ready, raced, overlapped, aborted} \subseteq BOOLEAN
    /\ {wallet, second} \subseteq Keys
    /\ {merchant, code} \subseteq Codes \cup {None}

(* A request that works on the row found one. *)
RowFacts ==
    /\ pinSet \/ wallet # None => row
    /\ \A r \in Requests :
          /\ at[r] \in {"wallet", "finish", "set pin"} => row
          /\ at[r] \in {"check pin", "read keys", "write keys"} => pinSet
          /\ at[r] = "finish" => wallet # None

(* A row without a wallet is about to get it, or something went wrong. *)
WalletUnderWay ==
    row => \/ wallet # None
           \/ \E r \in Requests : at[r] = "wallet"
           \/ Failed \/ aborted

Told ==
    /\ ready => pinSet /\ wallet # None
    /\ code # None => merchant = code

(* Who is about to insert a row that is there was overtaken. *)
InsertFacts ==
    /\ DiesOnlyByRace
    /\ \A r \in Requests : at[r] = "insert" /\ row => Failed \/ raced

(* The key that an import read is still the wallet, and nobody else is     *)
(* about to write one, unless two requests were changing keys at once.     *)
KeyFacts ==
    \A r \in Requests :
       /\ at[r] = "write keys" => held[r] = wallet \/ overlapped
       /\ at[r] = "wallet" /\ wallet # None => overlapped
       /\ \A q \in Requests \ {r} :
             /\ at[r] = "wallet" => at[q] # "wallet"
             /\ at[r] = "wallet" /\ at[q] = "write keys" => overlapped
             /\ at[r] = "write keys" /\ at[q] = "write keys" => overlapped

AccountInv ==
    /\ Counts /\ Shape
    /\ RowFacts /\ WalletUnderWay /\ Told /\ InsertFacts /\ KeyFacts

CountStep ==
    /\ UNCHANGED faults \/ Fault
    /\ UNCHANGED hits \/ CountHit \/ hits' = 0

-----------------------------------------------------------------------------

(* A failed call is remembered. *)
LEMMA FaultFails == Counts /\ Fault => Failed'
  BY AccountAssumption DEF Counts, Fault, Failed

(* How a step may change the counters: by one at most, or back to zero. *)
LEMMA CountsChange == [Next]_vars => CountStep
  <1> SUFFICES ASSUME [Next]_vars PROVE CountStep
    OBVIOUS
  <1> USE DEF CountStep, Maybe, limiter
  <1>1. ASSUME NEW r \in Requests, Arrive(r) PROVE CountStep
    BY <1>1 DEF Arrive
  <1>2. ASSUME NEW r \in Requests, SetWindow(r) PROVE CountStep
    BY <1>2 DEF SetWindow
  <1>3. ASSUME NEW r \in Requests, LookUp(r) PROVE CountStep
    BY <1>3 DEF LookUp
  <1>4. ASSUME NEW r \in Requests, Insert(r) PROVE CountStep
    BY <1>4 DEF Insert, Panic
  <1>5. ASSUME NEW r \in Requests, CreateWallet(r) PROVE CountStep
    BY <1>5 DEF CreateWallet
  <1>6. ASSUME NEW r \in Requests, SetUserPin(r) PROVE CountStep
    BY <1>6 DEF SetUserPin
  <1>7. ASSUME NEW r \in Requests, VerifyPin(r) PROVE CountStep
    BY <1>7 DEF VerifyPin
  <1>8. ASSUME NEW r \in Requests, ReadKeys(r) PROVE CountStep
    BY <1>8 DEF ReadKeys
  <1>9. ASSUME NEW r \in Requests, WriteKeys(r) PROVE CountStep
    BY <1>9 DEF WriteKeys
  <1>10. ASSUME NEW r \in Requests, FindMerchant(r) PROVE CountStep
    BY <1>10 DEF FindMerchant
  <1>11. ASSUME NEW r \in Requests, InsertMerchant(r) PROVE CountStep
    BY <1>11 DEF InsertMerchant
  <1>12. ASSUME NEW r \in Requests, ArriveFails(r) PROVE CountStep
    BY <1>12 DEF ArriveFails
  <1>13. ASSUME NEW r \in Requests, SetWindowFails(r) PROVE CountStep
    BY <1>13 DEF SetWindowFails
  <1>14. ASSUME NEW r \in Requests, LookUpFails(r) PROVE CountStep
    BY <1>14 DEF LookUpFails
  <1>15. ASSUME NEW r \in Requests, InsertFails(r) PROVE CountStep
    BY <1>15 DEF InsertFails, Panic
  <1>16. ASSUME NEW r \in Requests, CreateWalletFails(r) PROVE CountStep
    BY <1>16 DEF CreateWalletFails
  <1>17. ASSUME NEW r \in Requests, SetUserPinFails(r) PROVE CountStep
    BY <1>17 DEF SetUserPinFails
  <1>18. ASSUME NEW r \in Requests, ImportFails(r) PROVE CountStep
    BY <1>18 DEF ImportFails
  <1>19. ASSUME NEW r \in Requests, FindMerchantFails(r) PROVE CountStep
    BY <1>19 DEF FindMerchantFails
  <1>20. ASSUME NEW r \in Requests, InsertMerchantFails(r) PROVE CountStep
    BY <1>20 DEF InsertMerchantFails
  <1>21. CASE WindowEnds
    BY <1>21 DEF WindowEnds
  <1>22. CASE UNCHANGED vars
    BY <1>22 DEF vars
  <1> QED BY <1>1, <1>2, <1>3, <1>4, <1>5, <1>6, <1>7, <1>8, <1>9, <1>10, <1>11,
      <1>12, <1>13, <1>14, <1>15, <1>16, <1>17, <1>18, <1>19, <1>20, <1>21,
      <1>22 DEF Next, Step, StepFails

(* The counters stay in their ranges. *)
LEMMA StepCounts == Counts /\ [Next]_vars => Counts' /\ (Failed => Failed')
  BY CountsChange, AccountAssumption DEF CountStep, Counts, Failed, Fault, CountHit

(* No step takes a variable out of its type. *)
LEMMA StepShape == Shape /\ [Next]_vars => Shape'
  <1> SUFFICES ASSUME Shape, [Next]_vars PROVE Shape'
    OBVIOUS
  <1> USE AccountAssumption DEF Shape, Stages, Keys, Goto, Answer, Maybe, Beside,
      limiter, keys, users, ghosts
  <1>1. ASSUME NEW r \in Requests, Arrive(r) PROVE Shape'
    BY <1>1 DEF Arrive
  <1>2. ASSUME NEW r \in Requests, SetWindow(r) PROVE Shape'
    BY <1>2 DEF SetWindow
  <1>3. ASSUME NEW r \in Requests, LookUp(r) PROVE Shape'
    BY <1>3 DEF LookUp
  <1>4. ASSUME NEW r \in Requests, Insert(r) PROVE Shape'
    BY <1>4 DEF Insert, Panic
  <1>5. ASSUME NEW r \in Requests, CreateWallet(r) PROVE Shape'
    BY <1>5 DEF CreateWallet
  <1>6. ASSUME NEW r \in Requests, SetUserPin(r) PROVE Shape'
    BY <1>6 DEF SetUserPin
  <1>7. ASSUME NEW r \in Requests, VerifyPin(r) PROVE Shape'
    BY <1>7 DEF VerifyPin
  <1>8. ASSUME NEW r \in Requests, ReadKeys(r) PROVE Shape'
    BY <1>8 DEF ReadKeys
  <1>9. ASSUME NEW r \in Requests, WriteKeys(r) PROVE Shape'
    BY <1>9 DEF WriteKeys
  <1>10. ASSUME NEW r \in Requests, FindMerchant(r) PROVE Shape'
    BY <1>10 DEF FindMerchant
  <1>11. ASSUME NEW r \in Requests, InsertMerchant(r) PROVE Shape'
    BY <1>11 DEF InsertMerchant
  <1>12. ASSUME NEW r \in Requests, ArriveFails(r) PROVE Shape'
    BY <1>12 DEF ArriveFails
  <1>13. ASSUME NEW r \in Requests, SetWindowFails(r) PROVE Shape'
    BY <1>13 DEF SetWindowFails
  <1>14. ASSUME NEW r \in Requests, LookUpFails(r) PROVE Shape'
    BY <1>14 DEF LookUpFails
  <1>15. ASSUME NEW r \in Requests, InsertFails(r) PROVE Shape'
    BY <1>15 DEF InsertFails, Panic
  <1>16. ASSUME NEW r \in Requests, CreateWalletFails(r) PROVE Shape'
    BY <1>16 DEF CreateWalletFails
  <1>17. ASSUME NEW r \in Requests, SetUserPinFails(r) PROVE Shape'
    BY <1>17 DEF SetUserPinFails
  <1>18. ASSUME NEW r \in Requests, ImportFails(r) PROVE Shape'
    BY <1>18 DEF ImportFails
  <1>19. ASSUME NEW r \in Requests, FindMerchantFails(r) PROVE Shape'
    BY <1>19 DEF FindMerchantFails
  <1>20. ASSUME NEW r \in Requests, InsertMerchantFails(r) PROVE Shape'
    BY <1>20 DEF InsertMerchantFails
  <1>21. CASE WindowEnds
    BY <1>21 DEF WindowEnds
  <1>22. CASE UNCHANGED vars
    BY <1>22 DEF vars
  <1> QED BY <1>1, <1>2, <1>3, <1>4, <1>5, <1>6, <1>7, <1>8, <1>9, <1>10, <1>11,
      <1>12, <1>13, <1>14, <1>15, <1>16, <1>17, <1>18, <1>19, <1>20, <1>21,
      <1>22 DEF Next, Step, StepFails

(* No request gets to where keys are written. *)
NoneEnters == \A q \in Requests :
    at'[q] \in {"wallet", "write keys"} => at'[q] = at[q]

(* A step that changes no key keeps the facts about keys. *)
LEMMA KeysQuiet ==
    KeyFacts /\ UNCHANGED <<keys, overlapped, held>> /\ NoneEnters => KeyFacts'
  <1> SUFFICES ASSUME KeyFacts, UNCHANGED <<keys, overlapped, held>>, NoneEnters,
                      NEW r \in Requests, NEW q \in Requests
               PROVE  /\ at'[r] = "write keys" => held'[r] = wallet' \/ overlapped'
                      /\ at'[r] = "wallet" /\ wallet' # None => overlapped'
                      /\ q # r =>
                            /\ at'[r] = "wallet" => at'[q] # "wallet"
                            /\ at'[r] = "wallet" /\ at'[q] = "write keys" => overlapped'
                            /\ at'[r] = "write keys" /\ at'[q] = "write keys" => overlapped'
    BY DEF KeyFacts
  <1>1. at'[r] \in {"wallet", "write keys"} => at'[r] = at[r]
    BY DEF NoneEnters
  <1>2. at'[q] \in {"wallet", "write keys"} => at'[q] = at[q]
    BY DEF NoneEnters
  <1>3. UNCHANGED <<wallet, overlapped, held>>
    BY DEF keys
  <1>4. /\ at[r] = "write keys" => held[r] = wallet \/ overlapped
        /\ at[r] = "wallet" /\ wallet # None => overlapped
        /\ q # r => /\ at[r] = "wallet" => at[q] # "wallet"
                    /\ at[r] = "wallet" /\ at[q] = "write keys" => overlapped
                    /\ at[r] = "write keys" /\ at[q] = "write keys" => overlapped
    BY Zenon DEF KeyFacts
  <1>5. wallet' = wallet /\ held'[r] = held[r] /\ overlapped' = overlapped
    BY <1>3, SMT
  <1>7. overlapped => overlapped'
    BY <1>5
  <1>6. /\ at'[r] = "write keys" => at[r] = "write keys"
        /\ at'[r] = "wallet" => at[r] = "wallet"
        /\ at'[q] = "write keys" => at[q] = "write keys"
        /\ at'[q] = "wallet" => at[q] = "wallet"
    BY <1>1, <1>2
  <1> QED BY <1>4, <1>5, <1>6, <1>7

(* What a request found stays found: rows and PINs are never removed. *)
LEMMA StepRow == AccountInv /\ [Next]_vars => RowFacts'
  <1> SUFFICES ASSUME AccountInv, [Next]_vars PROVE RowFacts'
    OBVIOUS
  <1>0. Shape /\ Shape' /\ (Failed => Failed') /\ (Fault => Failed') /\ RowFacts
        /\ Derived # None
    BY StepShape, StepCounts, FaultFails DEF AccountInv, Derived, None
  <1> HIDE DEF AccountInv
  <1> USE <1>0, AccountAssumption DEF Shape, Stages, Keys, RowFacts, Goto, Answer,
      Maybe, Beside, limiter, keys, users, ghosts
  <1>1. ASSUME NEW r \in Requests, Arrive(r) PROVE RowFacts'
    BY <1>1 DEF Arrive
  <1>2. ASSUME NEW r \in Requests, SetWindow(r) PROVE RowFacts'
    BY <1>2 DEF SetWindow
  <1>3. ASSUME NEW r \in Requests, LookUp(r) PROVE RowFacts'
    BY <1>3 DEF LookUp
  <1>4. ASSUME NEW r \in Requests, Insert(r) PROVE RowFacts'
    BY <1>4 DEF Insert, Panic
  <1>5. ASSUME NEW r \in Requests, CreateWallet(r) PROVE RowFacts'
    BY <1>5 DEF CreateWallet
  <1>6. ASSUME NEW r \in Requests, SetUserPin(r) PROVE RowFacts'
    BY <1>6 DEF SetUserPin
  <1>7. ASSUME NEW r \in Requests, VerifyPin(r) PROVE RowFacts'
    BY <1>7 DEF VerifyPin
  <1>8. ASSUME NEW r \in Requests, ReadKeys(r) PROVE RowFacts'
    BY <1>8 DEF ReadKeys
  <1>9. ASSUME NEW r \in Requests, WriteKeys(r) PROVE RowFacts'
    BY <1>9 DEF WriteKeys
  <1>10. ASSUME NEW r \in Requests, FindMerchant(r) PROVE RowFacts'
    BY <1>10 DEF FindMerchant
  <1>11. ASSUME NEW r \in Requests, InsertMerchant(r) PROVE RowFacts'
    BY <1>11 DEF InsertMerchant
  <1>12. ASSUME NEW r \in Requests, ArriveFails(r) PROVE RowFacts'
    BY <1>12 DEF ArriveFails
  <1>13. ASSUME NEW r \in Requests, SetWindowFails(r) PROVE RowFacts'
    BY <1>13 DEF SetWindowFails
  <1>14. ASSUME NEW r \in Requests, LookUpFails(r) PROVE RowFacts'
    BY <1>14 DEF LookUpFails
  <1>15. ASSUME NEW r \in Requests, InsertFails(r) PROVE RowFacts'
    <2>1. row => row'
      BY <1>15, Zenon DEF InsertFails
    <2>4. UNCHANGED <<pinSet, wallet>>
      BY <1>15 DEF InsertFails
    <2>2. \A q \in Requests : at'[q] = "idle"
      BY <1>15 DEF InsertFails, Panic
    <2>3. pinSet \/ wallet # None => row'
      BY <2>1
    <2> QED BY <2>2, <2>3, <2>4
  <1>16. ASSUME NEW r \in Requests, CreateWalletFails(r) PROVE RowFacts'
    BY <1>16 DEF CreateWalletFails
  <1>17. ASSUME NEW r \in Requests, SetUserPinFails(r) PROVE RowFacts'
    <2>1. pinSet => pinSet'
      BY <1>17, Zenon DEF SetUserPinFails
    <2>3. UNCHANGED <<row, wallet, ready, code, merchant>>
      BY <1>17 DEF SetUserPinFails
    <2>2. \A q \in Requests : at'[q] = at[q] \/ at'[q] = "idle"
      BY <1>17 DEF SetUserPinFails
    <2>4. row
      BY <1>17 DEF SetUserPinFails
    <2> QED BY <2>1, <2>2, <2>3, <2>4
  <1>18. ASSUME NEW r \in Requests, ImportFails(r) PROVE RowFacts'
    BY <1>18 DEF ImportFails
  <1>19. ASSUME NEW r \in Requests, FindMerchantFails(r) PROVE RowFacts'
    BY <1>19 DEF FindMerchantFails
  <1>20. ASSUME NEW r \in Requests, InsertMerchantFails(r) PROVE RowFacts'
    BY <1>20 DEF InsertMerchantFails
  <1>21. CASE WindowEnds
    BY <1>21 DEF WindowEnds
  <1>22. CASE UNCHANGED vars
    BY <1>22 DEF vars
  <1> QED BY <1>1, <1>2, <1>3, <1>4, <1>5, <1>6, <1>7, <1>8, <1>9, <1>10, <1>11,
      <1>12, <1>13, <1>14, <1>15, <1>16, <1>17, <1>18, <1>19, <1>20, <1>21,
      <1>22 DEF Next, Step, StepFails

(* Only a failed call or a panic takes away the request that brings the wallet. *)
LEMMA StepWallet == AccountInv /\ [Next]_vars => WalletUnderWay'
  <1> SUFFICES ASSUME AccountInv, [Next]_vars PROVE WalletUnderWay'
    OBVIOUS
  <1>0. Shape /\ Shape' /\ (Failed => Failed') /\ (Fault => Failed') /\ WalletUnderWay /\ RowFacts
        /\ Derived # None
    BY StepShape, StepCounts, FaultFails DEF AccountInv, Derived, None
  <1> HIDE DEF AccountInv
  <1> USE <1>0, AccountAssumption DEF Shape, Stages, Keys, WalletUnderWay,
      RowFacts, Goto, Answer, Maybe, Beside, limiter, keys, users, ghosts
  <1>1. ASSUME NEW r \in Requests, Arrive(r) PROVE WalletUnderWay'
    BY <1>1 DEF Arrive
  <1>2. ASSUME NEW r \in Requests, SetWindow(r) PROVE WalletUnderWay'
    BY <1>2 DEF SetWindow
  <1>3. ASSUME NEW r \in Requests, LookUp(r) PROVE WalletUnderWay'
    BY <1>3 DEF LookUp
  <1>4. ASSUME NEW r \in Requests, Insert(r) PROVE WalletUnderWay'
    BY <1>4 DEF Insert, Panic
  <1>5. ASSUME NEW r \in Requests, CreateWallet(r) PROVE WalletUnderWay'
    BY <1>5 DEF CreateWallet
  <1>6. ASSUME NEW r \in Requests, SetUserPin(r) PROVE WalletUnderWay'
    BY <1>6 DEF SetUserPin
  <1>7. ASSUME NEW r \in Requests, VerifyPin(r) PROVE WalletUnderWay'
    BY <1>7 DEF VerifyPin
  <1>8. ASSUME NEW r \in Requests, ReadKeys(r) PROVE WalletUnderWay'
    BY <1>8 DEF ReadKeys
  <1>9. ASSUME NEW r \in Requests, WriteKeys(r) PROVE WalletUnderWay'
    BY <1>9 DEF WriteKeys
  <1>10. ASSUME NEW r \in Requests, FindMerchant(r) PROVE WalletUnderWay'
    BY <1>10 DEF FindMerchant
  <1>11. ASSUME NEW r \in Requests, InsertMerchant(r) PROVE WalletUnderWay'
    BY <1>11 DEF InsertMerchant
  <1>12. ASSUME NEW r \in Requests, ArriveFails(r) PROVE WalletUnderWay'
    BY <1>12 DEF ArriveFails
  <1>13. ASSUME NEW r \in Requests, SetWindowFails(r) PROVE WalletUnderWay'
    BY <1>13 DEF SetWindowFails
  <1>14. ASSUME NEW r \in Requests, LookUpFails(r) PROVE WalletUnderWay'
    BY <1>14 DEF LookUpFails
  <1>15. ASSUME NEW r \in Requests, InsertFails(r) PROVE WalletUnderWay'
    BY <1>15 DEF InsertFails, Panic
  <1>16. ASSUME NEW r \in Requests, CreateWalletFails(r) PROVE WalletUnderWay'
    BY <1>16 DEF CreateWalletFails
  <1>17. ASSUME NEW r \in Requests, SetUserPinFails(r) PROVE WalletUnderWay'
    BY <1>17 DEF SetUserPinFails
  <1>18. ASSUME NEW r \in Requests, ImportFails(r) PROVE WalletUnderWay'
    BY <1>18 DEF ImportFails
  <1>19. ASSUME NEW r \in Requests, FindMerchantFails(r) PROVE WalletUnderWay'
    BY <1>19 DEF FindMerchantFails
  <1>20. ASSUME NEW r \in Requests, InsertMerchantFails(r) PROVE WalletUnderWay'
    BY <1>20 DEF InsertMerchantFails
  <1>21. CASE WindowEnds
    BY <1>21 DEF WindowEnds
  <1>22. CASE UNCHANGED vars
    BY <1>22 DEF vars
  <1> QED BY <1>1, <1>2, <1>3, <1>4, <1>5, <1>6, <1>7, <1>8, <1>9, <1>10, <1>11,
      <1>12, <1>13, <1>14, <1>15, <1>16, <1>17, <1>18, <1>19, <1>20, <1>21,
      <1>22 DEF Next, Step, StepFails

(* Nothing that was announced is taken back. *)
LEMMA StepTold == AccountInv /\ [Next]_vars => Told'
  <1> SUFFICES ASSUME AccountInv, [Next]_vars PROVE Told'
    OBVIOUS
  <1>0. Shape /\ Shape' /\ (Failed => Failed') /\ (Fault => Failed') /\ Told /\ RowFacts
        /\ Derived # None
    BY StepShape, StepCounts, FaultFails DEF AccountInv, Derived, None
  <1> HIDE DEF AccountInv
  <1> USE <1>0, AccountAssumption DEF Shape, Stages, Keys, Told, RowFacts, Goto,
      Answer, Maybe, Beside, limiter, keys, users, ghosts
  <1>1. ASSUME NEW r \in Requests, Arrive(r) PROVE Told'
    BY <1>1 DEF Arrive
  <1>2. ASSUME NEW r \in Requests, SetWindow(r) PROVE Told'
    BY <1>2 DEF SetWindow
  <1>3. ASSUME NEW r \in Requests, LookUp(r) PROVE Told'
    BY <1>3 DEF LookUp
  <1>4. ASSUME NEW r \in Requests, Insert(r) PROVE Told'
    BY <1>4 DEF Insert, Panic
  <1>5. ASSUME NEW r \in Requests, CreateWallet(r) PROVE Told'
    BY <1>5 DEF CreateWallet
  <1>6. ASSUME NEW r \in Requests, SetUserPin(r) PROVE Told'
    BY <1>6 DEF SetUserPin
  <1>7. ASSUME NEW r \in Requests, VerifyPin(r) PROVE Told'
    BY <1>7 DEF VerifyPin
  <1>8. ASSUME NEW r \in Requests, ReadKeys(r) PROVE Told'
    BY <1>8 DEF ReadKeys
  <1>9. ASSUME NEW r \in Requests, WriteKeys(r) PROVE Told'
    BY <1>9 DEF WriteKeys
  <1>10. ASSUME NEW r \in Requests, FindMerchant(r) PROVE Told'
    BY <1>10 DEF FindMerchant
  <1>11. ASSUME NEW r \in Requests, InsertMerchant(r) PROVE Told'
    BY <1>11 DEF InsertMerchant
  <1>12. ASSUME NEW r \in Requests, ArriveFails(r) PROVE Told'
    BY <1>12 DEF ArriveFails
  <1>13. ASSUME NEW r \in Requests, SetWindowFails(r) PROVE Told'
    BY <1>13 DEF SetWindowFails
  <1>14. ASSUME NEW r \in Requests, LookUpFails(r) PROVE Told'
    BY <1>14 DEF LookUpFails
  <1>15. ASSUME NEW r \in Requests, InsertFails(r) PROVE Told'
    BY <1>15 DEF InsertFails, Panic
  <1>16. ASSUME NEW r \in Requests, CreateWalletFails(r) PROVE Told'
    BY <1>16 DEF CreateWalletFails
  <1>17. ASSUME NEW r \in Requests, SetUserPinFails(r) PROVE Told'
    <2>1. pinSet => pinSet'
      BY <1>17, Zenon DEF SetUserPinFails
    <2>3. UNCHANGED <<row, wallet, ready, code, merchant>>
      BY <1>17 DEF SetUserPinFails
    <2>2. \A q \in Requests : at'[q] = at[q] \/ at'[q] = "idle"
      BY <1>17 DEF SetUserPinFails
    <2>4. row
      BY <1>17 DEF SetUserPinFails
    <2> QED BY <2>1, <2>2, <2>3, <2>4
  <1>18. ASSUME NEW r \in Requests, ImportFails(r) PROVE Told'
    BY <1>18 DEF ImportFails
  <1>19. ASSUME NEW r \in Requests, FindMerchantFails(r) PROVE Told'
    BY <1>19 DEF FindMerchantFails
  <1>20. ASSUME NEW r \in Requests, InsertMerchantFails(r) PROVE Told'
    BY <1>20 DEF InsertMerchantFails
  <1>21. CASE WindowEnds
    BY <1>21 DEF WindowEnds
  <1>22. CASE UNCHANGED vars
    BY <1>22 DEF vars
  <1> QED BY <1>1, <1>2, <1>3, <1>4, <1>5, <1>6, <1>7, <1>8, <1>9, <1>10, <1>11,
      <1>12, <1>13, <1>14, <1>15, <1>16, <1>17, <1>18, <1>19, <1>20, <1>21,
      <1>22 DEF Next, Step, StepFails

(* A row comes in between the look-up and the INSERT by a race alone. *)
LEMMA StepInsert == AccountInv /\ [Next]_vars => InsertFacts'
  <1> SUFFICES ASSUME AccountInv, [Next]_vars PROVE InsertFacts'
    OBVIOUS
  <1>0. Shape /\ Shape' /\ (Failed => Failed') /\ (Fault => Failed') /\ InsertFacts
        /\ Derived # None
    BY StepShape, StepCounts, FaultFails DEF AccountInv, Derived, None
  <1> HIDE DEF AccountInv
  <1> USE <1>0, AccountAssumption DEF Shape, Stages, Keys, InsertFacts,
      DiesOnlyByRace, Goto, Answer, Maybe, Beside, limiter, keys, users, ghosts
  <1>1. ASSUME NEW r \in Requests, Arrive(r) PROVE InsertFacts'
    BY <1>1 DEF Arrive
  <1>2. ASSUME NEW r \in Requests, SetWindow(r) PROVE InsertFacts'
    BY <1>2 DEF SetWindow
  <1>3. ASSUME NEW r \in Requests, LookUp(r) PROVE InsertFacts'
    BY <1>3 DEF LookUp
  <1>4. ASSUME NEW r \in Requests, Insert(r) PROVE InsertFacts'
    <2>1. CASE row
      <3>1. Failed \/ raced
        BY <1>4, <2>1 DEF Insert, Panic
      <3>2. Failed' \/ raced'
        BY <1>4, <3>1 DEF Insert
      <3> QED BY <3>2
    <2>2. CASE ~row
      <3>1. UNCHANGED aborted /\ (raced => raced')
        BY <1>4, <2>2 DEF Insert
      <3>2. \A q \in Requests : at'[q] = "insert" => q # r /\ at[q] = "insert"
        BY <1>4, <2>2 DEF Insert
      <3>3. (\E q \in Requests \ {r} : at[q] = "insert") => raced'
        BY <1>4 DEF Insert
      <3> QED BY <3>1, <3>2, <3>3
    <2> QED BY <2>1, <2>2
  <1>5. ASSUME NEW r \in Requests, CreateWallet(r) PROVE InsertFacts'
    BY <1>5 DEF CreateWallet
  <1>6. ASSUME NEW r \in Requests, SetUserPin(r) PROVE InsertFacts'
    BY <1>6 DEF SetUserPin
  <1>7. ASSUME NEW r \in Requests, VerifyPin(r) PROVE InsertFacts'
    BY <1>7 DEF VerifyPin
  <1>8. ASSUME NEW r \in Requests, ReadKeys(r) PROVE InsertFacts'
    BY <1>8 DEF ReadKeys
  <1>9. ASSUME NEW r \in Requests, WriteKeys(r) PROVE InsertFacts'
    BY <1>9 DEF WriteKeys
  <1>10. ASSUME NEW r \in Requests, FindMerchant(r) PROVE InsertFacts'
    BY <1>10 DEF FindMerchant
  <1>11. ASSUME NEW r \in Requests, InsertMerchant(r) PROVE InsertFacts'
    BY <1>11 DEF InsertMerchant
  <1>12. ASSUME NEW r \in Requests, ArriveFails(r) PROVE InsertFacts'
    BY <1>12 DEF ArriveFails
  <1>13. ASSUME NEW r \in Requests, SetWindowFails(r) PROVE InsertFacts'
    BY <1>13 DEF SetWindowFails
  <1>14. ASSUME NEW r \in Requests, LookUpFails(r) PROVE InsertFacts'
    BY <1>14 DEF LookUpFails
  <1>15. ASSUME NEW r \in Requests, InsertFails(r) PROVE InsertFacts'
    BY <1>15 DEF InsertFails, Panic
  <1>16. ASSUME NEW r \in Requests, CreateWalletFails(r) PROVE InsertFacts'
    BY <1>16 DEF CreateWalletFails
  <1>17. ASSUME NEW r \in Requests, SetUserPinFails(r) PROVE InsertFacts'
    BY <1>17 DEF SetUserPinFails
  <1>18. ASSUME NEW r \in Requests, ImportFails(r) PROVE InsertFacts'
    BY <1>18 DEF ImportFails
  <1>19. ASSUME NEW r \in Requests, FindMerchantFails(r) PROVE InsertFacts'
    BY <1>19 DEF FindMerchantFails
  <1>20. ASSUME NEW r \in Requests, InsertMerchantFails(r) PROVE InsertFacts'
    BY <1>20 DEF InsertMerchantFails
  <1>21. CASE WindowEnds
    BY <1>21 DEF WindowEnds
  <1>22. CASE UNCHANGED vars
    BY <1>22 DEF vars
  <1> QED BY <1>1, <1>2, <1>3, <1>4, <1>5, <1>6, <1>7, <1>8, <1>9, <1>10, <1>11,
      <1>12, <1>13, <1>14, <1>15, <1>16, <1>17, <1>18, <1>19, <1>20, <1>21,
      <1>22 DEF Next, Step, StepFails

(* Requests that change keys together are noticed when the second comes. *)
LEMMA StepKeys == AccountInv /\ [Next]_vars => KeyFacts'
  <1> SUFFICES ASSUME AccountInv, [Next]_vars PROVE KeyFacts'
    OBVIOUS
  <1>0. Shape /\ Shape' /\ (Failed => Failed') /\ (Fault => Failed') /\ KeyFacts /\ RowFacts
        /\ Derived # None
    BY StepShape, StepCounts, FaultFails DEF AccountInv, Derived, None
  <1> HIDE DEF AccountInv
  <1> USE <1>0, AccountAssumption DEF Shape, Stages, Keys, KeyFacts, RowFacts,
      Goto, Answer, Maybe, Beside, limiter, keys, users, ghosts
  <1>1. ASSUME NEW r \in Requests, Arrive(r) PROVE KeyFacts'
    <2>1. UNCHANGED <<keys, overlapped, held>> /\ NoneEnters
      BY <1>1 DEF Arrive, NoneEnters
    <2> QED BY <2>1, KeysQuiet
  <1>2. ASSUME NEW r \in Requests, SetWindow(r) PROVE KeyFacts'
    <2>1. UNCHANGED <<keys, overlapped, held>> /\ NoneEnters
      BY <1>2 DEF SetWindow, NoneEnters
    <2> QED BY <2>1, KeysQuiet
  <1>3. ASSUME NEW r \in Requests, LookUp(r) PROVE KeyFacts'
    <2>1. UNCHANGED <<keys, overlapped, held>> /\ NoneEnters
      BY <1>3 DEF LookUp, NoneEnters
    <2> QED BY <2>1, KeysQuiet
  <1>4. ASSUME NEW r \in Requests, Insert(r) PROVE KeyFacts'
    <2>1. CASE row
      BY <1>4, <2>1 DEF Insert, Panic
    <2>2. CASE ~row
      <3>1. \A q \in Requests : at[q] \notin {"wallet", "finish", "write keys"}
        BY <2>2
      <3>2. /\ \A q \in Requests \ {r} : at'[q] = at[q]
            /\ at'[r] = "wallet" /\ wallet' = wallet
        BY <1>4, <2>2 DEF Insert
      <3>3. \A q \in Requests : at'[q] = "wallet" => q = r
        BY <3>1, <3>2
      <3>4. \A q \in Requests : at'[q] # "write keys"
        BY <3>1, <3>2
      <3>5. wallet = None
        BY <2>2
      <3> QED BY <3>2, <3>3, <3>4, <3>5
    <2> QED BY <2>1, <2>2
  <1>5. ASSUME NEW r \in Requests, CreateWallet(r) PROVE KeyFacts'
    BY <1>5 DEF CreateWallet
  <1>6. ASSUME NEW r \in Requests, SetUserPin(r) PROVE KeyFacts'
    <2>1. UNCHANGED <<keys, overlapped, held>> /\ NoneEnters
      BY <1>6 DEF SetUserPin, NoneEnters
    <2> QED BY <2>1, KeysQuiet
  <1>7. ASSUME NEW r \in Requests, VerifyPin(r) PROVE KeyFacts'
    <2>1. UNCHANGED <<keys, overlapped, held>> /\ NoneEnters
      BY <1>7 DEF VerifyPin, NoneEnters
    <2> QED BY <2>1, KeysQuiet
  <1>8. ASSUME NEW r \in Requests, ReadKeys(r) PROVE KeyFacts'
    BY <1>8 DEF ReadKeys
  <1>9. ASSUME NEW r \in Requests, WriteKeys(r) PROVE KeyFacts'
    BY <1>9 DEF WriteKeys
  <1>10. ASSUME NEW r \in Requests, FindMerchant(r) PROVE KeyFacts'
    <2>1. UNCHANGED <<keys, overlapped, held>> /\ NoneEnters
      BY <1>10 DEF FindMerchant, NoneEnters
    <2> QED BY <2>1, KeysQuiet
  <1>11. ASSUME NEW r \in Requests, InsertMerchant(r) PROVE KeyFacts'
    <2>1. UNCHANGED <<keys, overlapped, held>> /\ NoneEnters
      BY <1>11 DEF InsertMerchant, NoneEnters
    <2> QED BY <2>1, KeysQuiet
  <1>12. ASSUME NEW r \in Requests, ArriveFails(r) PROVE KeyFacts'
    <2>1. UNCHANGED <<keys, overlapped, held>> /\ NoneEnters
      BY <1>12 DEF ArriveFails, NoneEnters
    <2> QED BY <2>1, KeysQuiet
  <1>13. ASSUME NEW r \in Requests, SetWindowFails(r) PROVE KeyFacts'
    <2>1. UNCHANGED <<keys, overlapped, held>> /\ NoneEnters
      BY <1>13 DEF SetWindowFails, NoneEnters
    <2> QED BY <2>1, KeysQuiet
  <1>14. ASSUME NEW r \in Requests, LookUpFails(r) PROVE KeyFacts'
    <2>1. UNCHANGED <<keys, overlapped, held>> /\ NoneEnters
      BY <1>14 DEF LookUpFails, NoneEnters
    <2> QED BY <2>1, KeysQuiet
  <1>15. ASSUME NEW r \in Requests, InsertFails(r) PROVE KeyFacts'
    BY <1>15 DEF InsertFails, Panic
  <1>16. ASSUME NEW r \in Requests, CreateWalletFails(r) PROVE KeyFacts'
    BY <1>16 DEF CreateWalletFails
  <1>17. ASSUME NEW r \in Requests, SetUserPinFails(r) PROVE KeyFacts'
    <2>1. UNCHANGED <<keys, overlapped, held>> /\ NoneEnters
      BY <1>17 DEF SetUserPinFails, NoneEnters
    <2> QED BY <2>1, KeysQuiet
  <1>18. ASSUME NEW r \in Requests, ImportFails(r) PROVE KeyFacts'
    <2>1. CASE UNCHANGED keys
      <3>1. /\ NoneEnters /\ UNCHANGED <<wallet, overlapped>>
            /\ \A q \in Requests \ {r} : held'[q] = held[q]
            /\ at'[r] = "idle"
        BY <1>18, <2>1 DEF ImportFails, NoneEnters
      <3> QED BY <3>1 DEF NoneEnters
    <2>2. CASE at[r] = "write keys" /\ wallet' \in Imported
      <3>1. /\ NoneEnters /\ UNCHANGED overlapped
            /\ at'[r] = "idle"
        BY <1>18, <2>2 DEF ImportFails, NoneEnters
      <3> QED BY <2>2, <3>1 DEF NoneEnters
    <2> QED BY <1>18, <2>1, <2>2 DEF ImportFails
  <1>19. ASSUME NEW r \in Requests, FindMerchantFails(r) PROVE KeyFacts'
    <2>1. UNCHANGED <<keys, overlapped, held>> /\ NoneEnters
      BY <1>19 DEF FindMerchantFails, NoneEnters
    <2> QED BY <2>1, KeysQuiet
  <1>20. ASSUME NEW r \in Requests, InsertMerchantFails(r) PROVE KeyFacts'
    <2>1. UNCHANGED <<keys, overlapped, held>> /\ NoneEnters
      BY <1>20 DEF InsertMerchantFails, NoneEnters
    <2> QED BY <2>1, KeysQuiet
  <1>21. CASE WindowEnds
    BY <1>21 DEF WindowEnds
  <1>22. CASE UNCHANGED vars
    BY <1>22 DEF vars
  <1> QED BY <1>1, <1>2, <1>3, <1>4, <1>5, <1>6, <1>7, <1>8, <1>9, <1>10, <1>11,
      <1>12, <1>13, <1>14, <1>15, <1>16, <1>17, <1>18, <1>19, <1>20, <1>21,
      <1>22 DEF Next, Step, StepFails

(* The invariant holds of a phone that never dialled... *)
LEMMA AccountInitial == Init => AccountInv
  <1> SUFFICES ASSUME Init PROVE AccountInv
    OBVIOUS
  <1> USE DEF Init
  <1>1. Counts
    BY AccountAssumption DEF Counts
  <1>2. Shape
    BY DEF Shape, Keys, Stages
  <1>3. RowFacts /\ WalletUnderWay /\ KeyFacts
    BY DEF RowFacts, WalletUnderWay, KeyFacts
  <1>4. Told /\ InsertFacts
    BY DEF Told, InsertFacts, DiesOnlyByRace
  <1> QED BY <1>1, <1>2, <1>3, <1>4 DEF AccountInv

(* ... and in every reachable state. *)
LEMMA AccountInvariant == Spec => []AccountInv
  <1>1. AccountInv /\ [Next]_vars => AccountInv'
    BY StepCounts, StepShape, StepRow, StepWallet, StepTold, StepInsert, StepKeys
    DEF AccountInv
  <1> QED BY <1>1, AccountInitial, PTL DEF Spec

(* Every variable keeps its type. *)
THEOREM AccountTyped == Spec => []AccountTypeOK
  <1>1. AccountInv => AccountTypeOK
    BY DEF AccountInv, Counts, Shape, AccountTypeOK
  <1> QED BY <1>1, AccountInvariant, PTL

(* An account that was announced has its wallet and PIN, a merchant code   *)
(* that was announced is the user's, and nobody enters the menus without a *)
(* wallet unless a call failed or the process died.                        *)
THEOREM ToldIsTrue == Spec => []AnswersHold
  <1>1. AccountInv => AnswersHold
    BY DEF AccountInv, RowFacts, WalletUnderWay, Told, AnswersHold
  <1> QED BY <1>1, AccountInvariant, PTL

(* The unwrap of the INSERT only meets an error when a call failed or two  *)
(* registrations of the phone were on their way together.                  *)
THEOREM PanicsAreRaces == Spec => []DiesOnlyByRace
  <1>1. AccountInv => DiesOnlyByRace
    BY DEF AccountInv, InsertFacts
  <1> QED BY <1>1, AccountInvariant, PTL

(* A key that is replaced becomes the second key, unless two requests were *)
(* changing keys at once.                                                  *)
THEOREM KeysAreKept == Spec => OldKeyIsKept
  <1> DEFINE Kept == wallet' # wallet /\ wallet # None => second' = wallet \/ overlapped
  <1>1. AccountInv /\ [Next]_vars => Kept
    <2> SUFFICES ASSUME AccountInv, [Next]_vars, wallet' # wallet, wallet # None
                 PROVE  second' = wallet \/ overlapped
      OBVIOUS
    <2>1. PICK r \in Requests : \/ WriteKeys(r) \/ ImportFails(r)
                               \/ CreateWallet(r) \/ CreateWalletFails(r)
      BY DEF Next, Step, StepFails, vars, users, keys, Arrive, SetWindow, LookUp,
         Insert, SetUserPin, VerifyPin, ReadKeys, FindMerchant, InsertMerchant,
         ArriveFails, SetWindowFails, LookUpFails, InsertFails, SetUserPinFails,
         FindMerchantFails, InsertMerchantFails, WindowEnds
    <2>2. CASE WriteKeys(r) \/ ImportFails(r)
      <3>1. at[r] = "write keys" /\ second' = held[r]
        BY <2>2 DEF WriteKeys, ImportFails, Goto, Answer, Maybe, keys
      <3> QED BY <3>1 DEF AccountInv, KeyFacts
    <2>3. CASE CreateWallet(r) \/ CreateWalletFails(r)
      <3>1. at[r] = "wallet"
        BY <2>3 DEF CreateWallet, CreateWalletFails, Goto, Answer
      <3> QED BY <3>1 DEF AccountInv, KeyFacts
    <2> QED BY <2>1, <2>2, <2>3
  <1>2. []AccountInv /\ [][Next]_vars => [][Kept]_vars
    BY <1>1, PTL
  <1> QED BY <1>2, AccountInvariant, PTL DEF Spec, OldKeyIsKept
===============================================================================
