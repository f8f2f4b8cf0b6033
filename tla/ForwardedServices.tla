------------------------- MODULE ForwardedServices -------------------------
(***************************************************************************)
(* The services whose tables are forwarded row by row to every DHCP node,  *)
(* described by what ForwardedTables needs to tell them apart.  No         *)
(* variables.                                                              *)
(*                                                                         *)
(*   offers      the requests that its REST handlers take                  *)
(*   updateRowsDecide, deleteRowsDecide                                    *)
(*               an update, or the deletion of one row, that affects no    *)
(*               row is refused; else it is decided on what was read       *)
(*   batches     the same of the deletion of several rows, where there is  *)
(*               one; several rows are created at once from a file         *)
(*   always      an update is always sent; else only if it changes the     *)
(*               value that was read                                       *)
(*   byName      commands name the value and not the key                   *)
(*   system      system rows are read-only                                 *)
(*   observed    the lease consumer creates rows it has not seen           *)
(*   used        subnets name rows                                         *)
(*   partly      an update sends columns that it does not write            *)
(***************************************************************************)

\* What is asked of a table that rows are added to, and of one with files.
Table == {"insert", "update", "delete"}

TableWithFiles == Table \cup {"import", "batchDelete"}

NoBatches == [offered |-> FALSE, rowsDecide |-> FALSE]

Batches(rowsDecide) == [offered |-> TRUE, rowsDecide |-> rowsDecide]

-----------------------------------------------------------------------------
AdmitMacApi == TableWithFiles

AdmitMacBatches == Batches(TRUE)

AdmitMac ==
    [name |-> "admitmac", offers |-> AdmitMacApi, batches |-> AdmitMacBatches,
     updateRowsDecide |-> FALSE, deleteRowsDecide |-> TRUE, always |-> FALSE,
     byName |-> FALSE, system |-> FALSE, observed |-> FALSE, used |-> FALSE,
     partly |-> FALSE]

AdmitDuidApi == TableWithFiles

AdmitDuidBatches == Batches(TRUE)

AdmitDuid ==
    [AdmitMac EXCEPT !.name = "admitduid",
                     !.offers = AdmitDuidApi, !.batches = AdmitDuidBatches]

AdmitFingerprintApi == TableWithFiles

AdmitFingerprintBatches == Batches(TRUE)

AdmitFingerprint ==
    [AdmitMac EXCEPT !.name = "admitfingerprint",
                     !.offers = AdmitFingerprintApi, !.batches = AdmitFingerprintBatches]

RateLimitMacApi == TableWithFiles

RateLimitMacBatches == Batches(TRUE)

RateLimitMac ==
    [AdmitMac EXCEPT !.name = "ratelimitmac",
                     !.offers = RateLimitMacApi, !.batches = RateLimitMacBatches]

RateLimitDuidApi == TableWithFiles

RateLimitDuidBatches == Batches(TRUE)

RateLimitDuid ==
    [AdmitMac EXCEPT !.name = "ratelimitduid",
                     !.offers = RateLimitDuidApi, !.batches = RateLimitDuidBatches]

AssetApi == TableWithFiles

AssetBatches == Batches(TRUE)

Asset ==
    [AdmitMac EXCEPT !.name = "asset", !.offers = AssetApi, !.batches = AssetBatches]

-----------------------------------------------------------------------------
DhcpOuiApi == TableWithFiles

DhcpOuiBatches == Batches(FALSE)

DhcpOui ==
    [AdmitMac EXCEPT !.name = "dhcpoui", !.offers = DhcpOuiApi,
                     !.batches = DhcpOuiBatches, !.deleteRowsDecide = FALSE,
                     !.always = TRUE, !.system = TRUE, !.observed = TRUE]

DhcpFingerprintApi == TableWithFiles

DhcpFingerprintBatches == Batches(FALSE)

\* The four columns of a fingerprint are unique together, and name it.
DhcpFingerprint ==
    [DhcpOui EXCEPT !.name = "dhcpfingerprint", !.offers = DhcpFingerprintApi,
                    !.batches = DhcpFingerprintBatches, !.byName = TRUE, !.partly = TRUE]

-----------------------------------------------------------------------------
ClientClass4Api == Table

ClientClass4 ==
    [AdmitMac EXCEPT !.name = "clientclass4", !.offers = ClientClass4Api,
                     !.batches = NoBatches, !.updateRowsDecide = TRUE,
                     !.always = TRUE, !.used = TRUE]

ClientClass6Api == Table

ClientClass6 == [ClientClass4 EXCEPT !.name = "clientclass6", !.offers = ClientClass6Api]

AddressCodeApi == Table

AddressCode ==
    [AdmitMac EXCEPT !.name = "addresscode", !.offers = AddressCodeApi,
                     !.batches = NoBatches, !.deleteRowsDecide = FALSE,
                     !.byName = TRUE, !.used = TRUE]

-----------------------------------------------------------------------------
(* One row, made when the service is and never deleted. *)

AdmitApi == {"update"}

Admit ==
    [ClientClass4 EXCEPT !.name = "admit", !.offers = AdmitApi, !.used = FALSE]

RateLimitApi == {"update"}

RateLimit == [Admit EXCEPT !.name = "ratelimit", !.offers = RateLimitApi]

PingerApi == {"update"}

Pinger == [Admit EXCEPT !.name = "pinger", !.offers = PingerApi]

-----------------------------------------------------------------------------
\* One of each kind: a name changes nothing.
Kinds == {AdmitMac, DhcpOui, DhcpFingerprint, ClientClass4, AddressCode, Admit}

Services ==
    Kinds \cup {AdmitDuid, AdmitFingerprint, RateLimitMac, RateLimitDuid, Asset,
                ClientClass6, RateLimit, Pinger}

=============================================================================
