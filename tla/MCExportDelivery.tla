--------------------------- MODULE MCExportDelivery ---------------------------
(* Two downloads compete for one slot.                                        *)
EXTENDS ExportDelivery
===============================================================================
