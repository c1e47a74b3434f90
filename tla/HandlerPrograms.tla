--------------------------- MODULE HandlerPrograms ---------------------------
(***************************************************************************)
(* How deep each handler goes into the connection pool.                    *)
(*                                                                         *)
(* A handler gets a client from the pool, keeps it in a local variable,    *)
(* calls another function that gets a second one, and so on.  A client     *)
(* goes back when its variable goes out of scope, so clients are returned  *)
(* in the reverse order.  A program is the number of clients held after    *)
(* each get and each return, on the longest path of the handler's last     *)
(* step (the step that asks for the PIN and does the work).  Every USSD    *)
(* program starts with the client of handle_ussd_request, which is held to *)
(* the end.                                                                *)
(***************************************************************************)

(* The main menu: the user row and nothing more. *)
MainMenu == <<1, 0>>

(* A balance, or the favourites menu. *)
CheckBalance == <<1, 2, 1, 0>>

(* A new user: the INSERT's client is held across create_wallet and        *)
(* set_user_pin.                                                           *)
Registration == <<1, 2, 3, 2, 3, 2, 1, 0>>

(* verify_pin; transfer_p2p holds its client across check_daily_limit. *)
SendToPhone == <<1, 2, 1, 2, 3, 2, 1, 0>>

(* The favourites are read first; transfer_to_address is like transfer_p2p. *)
SendToFavorite == <<1, 2, 1, 2, 1, 2, 3, 2, 1, 0>>

(* verify_pin; the merchant; pay_merchant holds its client across the      *)
(* second merchant lookup and the limit.                                   *)
PayMerchant == <<1, 2, 1, 2, 1, 2, 3, 2, 3, 2, 1, 0>>

(* verify_pin; the key; purchase_airtime holds its client across the       *)
(* limit, the INSERT and the two status writes.                            *)
PayAirtime == <<1, 2, 1, 2, 1, 2, 3, 2, 3, 2, 3, 2, 3, 2, 1, 0>>

(* The account client is held; verify_pin; then the wallet's client is     *)
(* held across the PAJ session and the order's INSERT.                     *)
Onramp == <<1, 2, 3, 2, 3, 4, 3, 4, 3, 2, 1, 0>>

(* The account client is held; verify_pin, the session, the bank, the      *)
(* order's INSERT and the settlement take one more client each.            *)
Offramp == <<1, 2, 3, 2, 3, 2, 3, 2, 3, 2, 3, 2, 1, 0>>

(* The account client and the bank menu's client are held across           *)
(* verify_pin.                                                             *)
SaveBank == <<1, 2, 3, 4, 3, 2, 1, 0>>

(* Data, betting and cable take the path of airtime; electricity looks the *)
(* phone number for the receipt up at the end.                             *)
PayElectricity ==
    <<1, 2, 1, 2, 1, 2, 3, 2, 3, 2, 3, 2, 3, 2, 1, 2, 1, 0>>

(* verify_pin; the key's client is held until Jupiter has swapped. *)
SwapToken == <<1, 2, 1, 2, 1, 0>>

(* The public key; verify_pin; the key's client is held across the fee and *)
(* the deposit (or the withdrawal and the fee).                            *)
EarnMove == <<1, 2, 1, 2, 1, 2, 1, 0>>

(* The merchant lookup, then the registration. *)
RegisterMerchant == <<1, 2, 1, 2, 1, 0>>

(* The account client is held across verify_pin and export_private_key or  *)
(* import_private_key; PAJ verification checks the session, then saves it. *)
AccountChange == <<1, 2, 3, 2, 3, 2, 1, 0>>

(* The PAJ webhook: the order's transaction, then the contact lookup. *)
PajWebhook == <<1, 0, 1, 0>>

(* POST /api/paj/onramp: the session, then the INSERT.  Offramp adds the   *)
(* settlement's client.                                                    *)
ApiOnramp == <<1, 0, 1, 0>>
ApiOfframp == <<1, 0, 1, 0, 1, 0>>

(* A ledger task: one client, held across the 250 ms of a patch's retry. *)
LedgerTask == <<1, 0>>

AllPrograms == {MainMenu, CheckBalance, Registration, SendToPhone,
                SendToFavorite, PayMerchant, PayAirtime, Onramp, Offramp,
                SaveBank, PayElectricity, SwapToken, EarnMove,
                RegisterMerchant, AccountChange, PajWebhook, ApiOnramp,
                ApiOfframp}
=============================================================================
