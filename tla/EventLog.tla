------------------------------- MODULE EventLog -------------------------------
(***************************************************************************)
(* The rows of the Event table a transaction leaves behind: what operators   *)
(* read to learn what became of it.  One definition per function of          *)
(*                                                                           *)
(*   AirtimeTransactionEventService, DataTransactionEventService,            *)
(*   TransactionEventService            services/TransactionEvent.service    *)
(*                                                                           *)
(* An event is its type and its source: "API", or the vendor of the row as   *)
(* the handler read it.  The event of a switch also names the new vendor.    *)
(* Events are only ever added, so the log of a transaction is their set.     *)
(***************************************************************************)

Event(type, source) == [type |-> type, source |-> source]

SwitchEvent(type, source, v) == [type |-> type, source |-> source, newVendor |-> v]

-----------------------------------------------------------------------------
(* TransactionEventService: electricity *)

PowerPurchaseInitiated     == Event("POWER_PURCHASE_INITIATED_BY_CUSTOMER", "API")
PowerPurchaseNewVendor(v)  == SwitchEvent("RETRY_PURCHASE_FROM_NEW_VENDOR", "API", v)
VendElectricityRequested   == Event("VEND_ELECTRICITY_REQUESTED_FROM_VENDOR", "API")
TokenRequestTimedOut(v)    == Event("TOKEN_REQUEST_TIMEDOUT", v)
TokenRequestFailed(v)      == Event("TOKEN_REQUEST_FAILED", v)
TokenRequestedRetry(v)     == Event("GET_TRANSACTION_TOKEN_FROM_VENDOR_RETRY", v)
TokenFromVendorInitiated(v) == Event("GET_TRANSACTION_TOKEN_FROM_VENDOR_INITIATED", v)
TokenReceived(v)           == Event("TOKEN_RECIEVED_FROM_VENDOR", v)

(* Before the purchase: the meter and its user. *)
MeterValidationRequested   == Event("METER_VALIDATION_REQUEST_SENT_TO_VENDOR", "API")
MeterValidationFailed      == Event("METER_VALIDATION_FAILED", "API")
MeterValidationReceived(v) == Event("METER_VALIDATION_RECIEVED_FROM_VENDOR", v)
MeterValidationSent        == Event("METER_VALIDATION_SENT_PARTNER", "API")
CRMUserInitiated           == Event("CREATE_USER_INITIATED", "API")
CRMUserConfirmed           == Event("CREATE_USER_CONFIRMED", "API")

-----------------------------------------------------------------------------
(* AirtimeTransactionEventService *)

(* The same in DataTransactionEventService, as is the event of a new user. *)
PhoneValidationRequested ==
  Event("PHONENUMBER_VALIDATION_REQUESTED_FROM_PARTNER", "API")

AirtimePurchaseInitiated    == Event("AIRTIME_PURCHASE_INITIATED_BY_CUSTOMER", "API")
VendAirtimeRequested        == Event("VEND_AIRTIME_REQUESTED_FROM_VENDOR", "API")
AirtimeRequestTimedOut      == Event("REQUEST_TIMEDOUT", "API")
AirtimeRetry(v)             == Event("GET_TRANSACTION_TOKEN_FROM_VENDOR_RETRY", v)
AirtimeNewVendor(from, to)  == SwitchEvent("RETRY_AIRTIME_PURCHASE_FROM_NEW_VENDOR", from, to)
AirtimeReceived(v)          == Event("AIRTIME_RECEIVED_FROM_VENDOR", v)
AirtimePurchaseConfirmed    == Event("AIRTIME_RECEIVED_FROM_VENDOR", "API")
AirtimeTransactionRequery(v) == Event("AIRTIME_TRANSACTION_REQUERY", v)
AirtimeRequeryInitiated(v)  == Event("AIRTIME_TRANSACTION_REQUERY_INITIATED", v)

-----------------------------------------------------------------------------
(* DataTransactionEventService *)

DataPurchaseInitiated    == Event("DATA_PURCHASE_INITIATED_BY_CUSTOMER", "API")
VendDataRequested        == Event("VEND_DATA_REQUESTED_FROM_VENDOR", "API")
DataRequestTimedOut      == Event("REQUEST_TIMEDOUT", "API")
DataRetry(v)             == Event("GET_TRANSACTION_TOKEN_FROM_VENDOR_RETRY", v)
DataNewVendor(from, to)  == SwitchEvent("RETRY_DATA_PURCHASE_FROM_NEW_VENDOR", from, to)
DataReceived(v)          == Event("DATA_RECEIVED_FROM_VENDOR", v)
DataTransactionRequery(v) == Event("DATA_TRANSACTION_REQUERY", v)
DataRequeryInitiated(v)  == Event("DATA_TRANSACTION_REQUERY_INITIATED", v)
=============================================================================
