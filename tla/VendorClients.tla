----------------------------- MODULE VendorClients -----------------------------
(***************************************************************************)
(* What the clients of the vendors' interfaces make of a reply, and what     *)
(* the Token, Airtime and Data consumers then read in it.                    *)
(*                                                                           *)
(*   VendorService              services/VendorApi.service/index.ts          *)
(*   the clients of one vendor  services/VendorApi.service/{Baxi,...}        *)
(*                                                                           *)
(* A reply has the vendor's code (responseCode of BUYPOWERNG, code of BAXI,  *)
(* status of IRECHARGE), what it says of the vend (result.status of          *)
(* BUYPOWERNG, transactionStatus of BAXI, vend_status of IRECHARGE; None     *)
(* when that is left out) and a token or none.  Building the requests,       *)
(* hashes and log entries are left out: a vend is known to its vendor by     *)
(* the reference that is sent.                                               *)
(* Any vendor but IRECHARGE and BUYPOWERNG is BAXI.                          *)
(***************************************************************************)

CONSTANTS
  Irecharge,    \* the vendor whose requery goes by access token
  Buypower,     \* the vendor whose requery throws while the vend is pending
  None          \* no value

(* No value is no value a reply has. *)
ASSUME NoneAssumption == None \notin {"success", "20", "202", "203"}

IsBaxi(v) == v \notin {Buypower, Irecharge}

(* The HTTP status is a success, or an error that axios throws. *)
Reply(ok, code, status, token) ==
  [ok |-> ok, code |-> code, status |-> status, token |-> token]

(* What a client returns, or throws: an AxiosError keeps the reply, any other *)
(* error loses it.                                                           *)
Returned(r)   == [thrown |-> "no", reply |-> r]
AxiosError(r) == [thrown |-> "axios", reply |-> r]
PlainError    == [thrown |-> "plain", reply |-> Reply(FALSE, None, None, FALSE)]

Thrown(res) == res.thrown # "no"

ReturnedOrThrown(r) == IF r.ok THEN Returned(r) ELSE AxiosError(r)

-----------------------------------------------------------------------------
(* Purchases *)

BaxiVendToken(r) == IF r.ok THEN Returned(r) ELSE PlainError

(* "An unexpected error occurred. Please requery.": 'Transaction timeout'     *)
BuypowerVendToken(r) ==
  IF ~r.ok /\ r.code = "500" THEN PlainError ELSE ReturnedOrThrown(r)

(* A GET whose outcome is the status of the body. *)
IrechargeVend(r)      == ReturnedOrThrown(r)
IrechargeVendToken(r) == IrechargeVend(r)

PurchaseElectricity(v, r) ==
  CASE v = Buypower  -> BuypowerVendToken(r)
    [] v = Irecharge -> IrechargeVendToken(r)
    [] OTHER         -> BaxiVendToken(r)

BuypowerAirtime(r)  == IF ~r.ok /\ r.code = "500" THEN PlainError ELSE ReturnedOrThrown(r)
IrechargeAirtime(r) == ReturnedOrThrown(r)

PurchaseAirtime(v, r) ==
  CASE v = Buypower  -> BuypowerAirtime(r)
    [] v = Irecharge -> IrechargeAirtime(r)
    [] OTHER         -> ReturnedOrThrown(r)

BuypowerData(r)  == IF ~r.ok /\ r.code = "500" THEN PlainError ELSE ReturnedOrThrown(r)
IrechargeData(r) == ReturnedOrThrown(r)

PurchaseData(v, r) ==
  CASE v = Buypower  -> BuypowerData(r)
    [] v = Irecharge -> IrechargeData(r)
    [] OTHER         -> ReturnedOrThrown(r)

(* BAXI's clients for airtime and data make up an agentReference. *)
AirtimeReference(v, reference, random) ==
  IF IsBaxi(v) THEN random ELSE reference

DataReference(v, reference, random) ==
  IF IsBaxi(v) THEN random ELSE reference

-----------------------------------------------------------------------------
(* Requeries *)

(* The result's responseCode, which BAXI does not send, is made of its status. *)
BaxiRequery(r) == ReturnedOrThrown(r)

BaxiResponseCode(r) == IF r.status = "success" THEN "200" ELSE "202"

(* A reply without a result is a TypeError; a success gets responseCode 200.  *)
BuypowerRequery(r) ==
  IF ~r.ok THEN AxiosError(r)
  ELSE CASE r.status = None      -> PlainError
         [] r.status = "success" -> Returned([r EXCEPT !.code = "200"])
         [] OTHER                -> Returned(r)

IrechargeVendStatus(r) == ReturnedOrThrown(r)
IrechargeRequery(r)    == IrechargeVendStatus(r)

(* TokenHandlerUtil.requeryTransactionFromVendor *)
Requeried(v, r) ==
  CASE v = Buypower  -> BuypowerRequery(r)
    [] v = Irecharge -> IrechargeRequery(r)
    [] OTHER         -> BaxiRequery(r)

-----------------------------------------------------------------------------
(* Meters *)

BaxiValidateMeter(r) ==
  IF ~r.ok \/ r.status = "pending" THEN PlainError ELSE Returned(r)

BuypowerValidateMeter(r) == IF r.ok THEN Returned(r) ELSE PlainError

IrechargeMeterInfo(r)      == ReturnedOrThrown(r)
IrechargeValidateMeter(r)  == IrechargeMeterInfo(r)

ValidateMeterWith(v, r) ==
  CASE v = Buypower  -> BuypowerValidateMeter(r)
    [] v = Irecharge -> IrechargeValidateMeter(r)
    [] OTHER         -> BaxiValidateMeter(r)

-----------------------------------------------------------------------------
(* What the Token consumer reads *)

BaxiCodesToRequery ==
  {"BX0001", "BX0019", "BX0021", "BX0024", "EXC00103", "EXC00105", "EXC00109",
   "EXC00114", "EXC00124", "UNK0001", "EXC00144", "EXC00001"}

(* tokenInfoResponseSuccessful *)
PurchaseSucceeds(v, r) == r.code = IF v = Irecharge THEN "00" ELSE "200"

(* transactionTimedOut *)
PurchaseTimesOut(v, r) ==
  CASE v = Buypower  -> r.code = "202"
    [] v = Irecharge -> r.code \in {"15", "43"}
    [] OTHER         -> r.status = "pending" \/ r.code \in BaxiCodesToRequery

(* Slip: a success is enough. *)
PurchaseSettlesOnSuccess(v, res, prepaid) ==
  ~Thrown(res) /\ PurchaseSucceeds(v, res.reply)

(* handleTokenRequest announces the token instead of requerying: a PREPAID    *)
(* meter needs one, and a POSTPAID one no sign of a timeout.                  *)
PurchaseSettles(v, res, prepaid) ==
  /\ ~Thrown(res)
  /\ PurchaseSucceeds(v, res.reply)
  /\ IF prepaid THEN res.reply.token ELSE ~PurchaseTimesOut(v, res.reply)

(* transactionTimedOutFromBuypower, which is logged *)
BuypowerTimesOut(v, res) ==
  v = Buypower /\ ~Thrown(res) /\ PurchaseTimesOut(v, res.reply)

(* BAXI's replies have a data.statusCode of 0 wherever their code is 200 (the  *)
(* types BaxiRequeryResultForPurchase of Baxi/Config.ts), so that the test of  *)
(* both is that of the code.                                                 *)
RequerySucceeds(v, r) ==
  CASE v = Buypower  -> r.code = "200"
    [] v = Irecharge -> r.code = "00" /\ r.status = "successful"
    [] OTHER         -> r.code = "200"

(* Slip: any error is a failure. *)
RequeryFailsOnError(v, res) == Thrown(res)

(* BUYPOWERNG reports a failure by an HTTP error. *)
RequeryFails(v, res) ==
  CASE v = Buypower  -> res.thrown = "axios" /\ res.reply.code \in {"202", "203", "20"}
    [] v = Irecharge -> ~Thrown(res) /\ res.reply.code \in {"02", "03"}
    [] OTHER         -> /\ ~Thrown(res)
                        /\ BaxiResponseCode(res.reply) = "202"
                        /\ res.reply.code \in {"500", "503", "BX0002"}

(* requeryTransactionForToken *)
RequeryReading(v, res) ==
  IF RequeryFails(v, res) THEN "failed"
  ELSE IF Thrown(res) THEN "error"
  ELSE IF RequerySucceeds(v, res.reply) THEN "success" ELSE "open"

-----------------------------------------------------------------------------
(* What the Airtime and Data consumers read *)

(* A purchase: "failed" goes to a new vendor. *)
PhonePurchaseReading(v, res) ==
  IF Thrown(res) THEN "error"
  ELSE IF PurchaseSucceeds(v, res.reply) THEN "success"
  ELSE IF v = Irecharge /\ res.reply.code \in {"15", "43"} THEN "open" ELSE "failed"

(* requeryTransaction: "announced" is a success for BUYPOWERNG and IRECHARGE;  *)
(* BAXI's reply is not looked at ("TODO: Add logic to handle baxi requery").  *)
PhoneRequeryReading(v, res) ==
  IF Thrown(res) THEN "error"
  ELSE CASE v = Buypower  -> CASE res.reply.code = "200" -> "announced"
                               [] res.reply.code = "202" -> "failed"
                               [] OTHER                  -> "open"
         [] v = Irecharge -> CASE res.reply.code = "00"  -> "announced"
                               [] res.reply.code \in {"15", "43"} -> "open"
                               [] OTHER                  -> "failed"
         [] OTHER         -> "announced"

(* handleAirtimeRecievd *)
VendSucceeded(v, r) ==
  IF IsBaxi(v) THEN BaxiResponseCode(r) = "200" ELSE RequerySucceeds(v, r)

(* handleDataRequest reads the reply to the purchase, res, and the one to the *)
(* requery that follows it, probe.                                           *)
DataTimedOut(v, probe) ==
  /\ ~Thrown(probe)
  /\ CASE v = Irecharge -> probe.reply.code \in {"15", "43"}
       [] IsBaxi(v)     -> probe.reply.status = "success"
       [] OTHER         -> FALSE

DataSucceeds(v, res, probe) ==
  /\ ~Thrown(res)
  /\ IF v = Buypower THEN ~Thrown(probe) /\ probe.reply.code = "200"
                     ELSE PurchaseSucceeds(v, res.reply)

DataReading(v, res, probe) ==
  IF DataTimedOut(v, probe) THEN "timed out"
  ELSE IF DataSucceeds(v, res, probe) THEN "success"
  ELSE IF PhonePurchaseReading(v, res) = "open" THEN "open" ELSE "failed"

-----------------------------------------------------------------------------
(* What a vendor says of a vend it delivered, still works on, or turned down *)
(* or never saw.                                                             *)

Outcomes == {"delivered", "pending", "failed"}

(* The outcome of vend p, when d are the vends delivered and n the pending.  *)
OutcomeIn(p, d, n) ==
  CASE p \in d -> "delivered" [] p \in n \ d -> "pending" [] OTHER -> "failed"

Success(v, token) ==
  CASE v = Buypower  -> Reply(TRUE, "200", "success", token)
    [] v = Irecharge -> Reply(TRUE, "00", "successful", token)
    [] OTHER         -> Reply(TRUE, "200", "success", token)

InProgress(v) ==
  CASE v = Buypower  -> {Reply(TRUE, "202", None, FALSE)}
    [] v = Irecharge -> {Reply(TRUE, c, None, FALSE) : c \in {"15", "43"}}
    [] OTHER         -> {Reply(TRUE, c, "pending", FALSE) : c \in {"200", "BX0001"}}

Refusals == {Reply(TRUE, "other", None, FALSE)}

NoAnswer == {Reply(FALSE, c, None, FALSE) : c \in {None, "500"}}

(* A vend may be decided between the reply and what it is about.  BAXI's      *)
(* success carries the token of a prepaid meter, or none yet.                 *)
PurchaseReplies(v, outcome) ==
  NoAnswer \cup
    CASE outcome = "delivered" -> {Success(v, token) : token \in BOOLEAN} \cup InProgress(v)
      [] outcome = "pending"   -> InProgress(v)
      [] OTHER                 -> Refusals

RequeryReplies(v, outcome) ==
  CASE v = Buypower ->
         CASE outcome = "delivered" -> {Success(v, TRUE)}
           [] outcome = "pending"   -> {Reply(TRUE, "201", None, FALSE)}
           [] OTHER -> {Reply(FALSE, c, None, FALSE) : c \in {"202", "203", "20"}}
    [] v = Irecharge ->
         CASE outcome = "delivered" -> {Success(v, TRUE)}
           [] outcome = "pending"   -> InProgress(v)
           [] OTHER -> {Reply(TRUE, c, None, FALSE) : c \in {"02", "03"}}
    [] OTHER ->
         CASE outcome = "delivered" -> {Success(v, TRUE)}
           [] outcome = "pending"   -> {Reply(TRUE, "BX0001", "pending", FALSE)}
           [] OTHER -> {Reply(TRUE, c, "failed", FALSE) : c \in {"500", "503", "BX0002"}}

AnyRequeryReply(v) == UNION {RequeryReplies(v, o) : o \in Outcomes}

(* A meter is known to the vendor, or not yet, or it does not answer. *)
MeterReplies ==
  {Reply(TRUE, "00", None, token) : token \in BOOLEAN}
    \cup {Reply(TRUE, "00", "pending", FALSE)} \cup NoAnswer
=============================================================================
