------------------------------ MODULE MCCatalogue ------------------------------
EXTENDS Catalogue
MCProductCodes == <<"ECABEPS">>
(* GLO before AIRTEL, whose table the seeding does not get through. *)
MCNetworks == <<"GLO", "AIRTEL">>
=============================================================================
