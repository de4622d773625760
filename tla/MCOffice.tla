------------------------------ MODULE MCOffice ------------------------------
(***************************************************************************)
(* Small instances, side by side, of the parts of the program that do not  *)
(* interact: the owner's office and what feeds it.  OfficeInit chooses one *)
(* part, and the behaviour is that part's; the others stay as they begin.  *)
(***************************************************************************)
EXTENDS ReferralLedger, KeyRotation, PaidOrders, Website, OwnerConsole, PngImage, TLC

CONSTANTS ann, bob, i1, tee, t1, q1, x1, d1

VARIABLE part

Rate(mode, n) == [mode |-> mode, value |-> n]
SomeRules == {
  [discount |-> Rate("PERCENT", 2000), reward |-> Rate("PERCENT", 5000), threshold |-> 0],
  [discount |-> Rate("FIXED", 3), reward |-> Rate("FIXED", 2), threshold |-> 5]}
SessionOfQuote(q) == x1
BootCatalog == tee :> 1
MatchesOf == [all |-> <<1, 2, 3, 4, 5>>, some |-> <<2, 4, 5>>]

H(w, h, c, d, a) == [width |-> w, height |-> h, color |-> c, depth |-> d, adam7 |-> a]
FileHeaders ==
  {H(1, 1, 0, 1, FALSE), H(1, 1, 2, 8, FALSE), H(1, 1, 3, 1, FALSE), H(1, 1, 6, 8, FALSE),
   H(0, 1, 6, 8, FALSE), H(1, 1, 6, 4, FALSE)}
RasterHeaders ==
  {H(w, h, k[1], k[2], a) : w \in 1 .. 9, h \in 1 .. 9,
     k \in {<<0, 1>>, <<0, 4>>, <<2, 8>>, <<6, 16>>}, a \in BOOLEAN}
RowHeaders == {H(2, 2, 0, 8, FALSE)}
OneByte == {<<1>>}
TwoBytes == {0, 1, 128, 255} \X {0, 1, 128, 255}

(* Of the sale at Fourthwall, the carts of two tabs without faults, and the  *)
(* deliveries of two webhooks with them.                                     *)
Carts == INSTANCE PaidOrders WITH Deliveries <- {d1}, MaxOrderFaults <- 0
Webhooks == INSTANCE PaidOrders WITH Quotes <- {q1}, CartTabs <- {t1}

(* Of the PNG reader, the chunks of files of one pixel, the rasters of every *)
(* size up to nine by nine, and the scanlines of one raster.                 *)
Rasters == INSTANCE PngImage WITH Headers <- RasterHeaders, MaxChunks <- 3
Scanlines == INSTANCE PngImage WITH Headers <- RowHeaders, Raws <- TwoBytes, MaxChunks <- 3, MaxRows <- 2

OfficeInit ==
  /\ part \in {"ledger", "keys", "carts", "webhooks", "website", "studio", "list", "creators",
               "support", "file", "raster", "rows"}
  /\ Init /\ RotationInit /\ OrdersInit /\ WebsiteInit
  /\ StudioInit /\ ListInit /\ PanelInit /\ SupportInit
  /\ PngInit
  /\ part # "list" => query = "all"
  /\ part # "creators" => selectedCreatorId = ann

OfficeNext ==
  /\ UNCHANGED part
  /\ IF part = "ledger" THEN Next ELSE UNCHANGED vars
  /\ IF part = "keys" THEN RotationNext ELSE UNCHANGED rotationVars
  /\ CASE part = "carts" -> Carts!OrdersNext
       [] part = "webhooks" -> Webhooks!OrdersNext
       [] OTHER -> UNCHANGED orderVars
  /\ IF part = "website" THEN WebsiteNext ELSE UNCHANGED websiteVars
  /\ IF part = "studio" THEN StudioNext ELSE UNCHANGED studioVars
  /\ IF part = "list" THEN ListNext ELSE UNCHANGED listVars
  /\ IF part = "creators" THEN PanelNext ELSE UNCHANGED panelVars
  /\ IF part = "support" THEN SupportNext ELSE UNCHANGED supportVars
  /\ CASE part = "file" -> PngNext
       [] part = "raster" -> Rasters!PngNext
       [] part = "rows" -> Scanlines!PngNext
       [] OTHER -> UNCHANGED pngVars

everything ==
  <<part, vars, rotationVars, orderVars, websiteVars, studioVars, listVars, panelVars, supportVars, pngVars>>
OfficeSpec == OfficeInit /\ [][OfficeNext]_everything

ASSUME OfficeAssumption ==
  /\ LedgerAssumption /\ RotationAssumption /\ OrdersAssumption /\ WebsiteAssumption
  /\ ConsoleAssumption /\ PngAssumption
=============================================================================
