-------------------------- MODULE MCServices_proof --------------------------
(***************************************************************************)
(* What the run of MCServices checks of the services on a small instance,  *)
(* for every value of the constants.                                       *)
(***************************************************************************)
EXTENDS Services_proof, Admin_proof, MCServices

-----------------------------------------------------------------------------
(***************************************************************************)
(* The run of all parts.  A behaviour of MCServices is one of a single     *)
(* part: its tables move as the module of the part says, the others not at *)
(* all, so what holds of every part's module holds of the run.             *)
(***************************************************************************)

InProduct == part = "product"
InDrawer == part = "drawer"
InGoods == part = "goods"
InShelf == part = "shelf"
InKitchen == part = "kitchen"
InBooks == part = "books"
InPayout == part = "payout"
InPartner == part = "partner"
InGroup == part = "group"
InClub == part = "club"
InLogin == part = "login"
InEntry == part = "entry"
InMenu == part = "menu"
InNet == part = "net"
InTiers == part = "tiers"
InShop == part = "shop"
InPage == part = "page"
InHome == part = "home"
InWatch == part = "watch"
InSecret == part = "secret"
InBoot == part = "boot"
InNear == part = "near"
InDesk == part = "desk"
InScreen == part = "screen"

LEMMA PartStays == [Next]_vars => UNCHANGED part
BY DEF Next, vars

LEMMA ProductAlone ==
  /\ Init /\ InProduct => Product!Init
  /\ InProduct /\ [Next]_vars => InProduct' /\ [Product!Next]_(Product!vars)
  /\ InProduct /\ [Next]_vars /\ UNCHANGED Product!vars => UNCHANGED vars
  /\ ~InProduct /\ [Next]_vars => ~InProduct'
BY PartStays DEF Init, Next, UnusedStay, vars, Product!vars, InProduct

LEMMA DrawerAlone ==
  /\ Init /\ InDrawer => Drawer!Init
  /\ InDrawer /\ [Next]_vars => InDrawer' /\ [Drawer!Next]_(Drawer!vars)
  /\ InDrawer /\ [Next]_vars /\ UNCHANGED Drawer!vars => UNCHANGED vars
  /\ ~InDrawer /\ [Next]_vars => ~InDrawer'
BY PartStays DEF Init, Next, UnusedStay, vars, Drawer!vars, InDrawer

LEMMA GoodsAlone ==
  /\ Init /\ InGoods => Goods!Init
  /\ InGoods /\ [Next]_vars => InGoods' /\ [Goods!Next]_(Goods!vars)
  /\ InGoods /\ [Next]_vars /\ UNCHANGED Goods!vars => UNCHANGED vars
  /\ ~InGoods /\ [Next]_vars => ~InGoods'
BY PartStays DEF Init, Next, UnusedStay, vars, Goods!vars, InGoods

LEMMA ShelfAlone ==
  /\ Init /\ InShelf => Shelf!Init
  /\ InShelf /\ [Next]_vars => InShelf' /\ [Shelf!Next]_(Shelf!vars)
  /\ InShelf /\ [Next]_vars /\ UNCHANGED Shelf!vars => UNCHANGED vars
  /\ ~InShelf /\ [Next]_vars => ~InShelf'
BY PartStays DEF Init, Next, UnusedStay, vars, Shelf!vars, InShelf

LEMMA KitchenAlone ==
  /\ Init /\ InKitchen => Kitchen!Init
  /\ InKitchen /\ [Next]_vars => InKitchen' /\ [Kitchen!Next]_(Kitchen!vars)
  /\ InKitchen /\ [Next]_vars /\ UNCHANGED Kitchen!vars => UNCHANGED vars
  /\ ~InKitchen /\ [Next]_vars => ~InKitchen'
BY PartStays DEF Init, Next, UnusedStay, vars, Kitchen!vars, InKitchen

LEMMA BooksAlone ==
  /\ Init /\ InBooks => Books!Init
  /\ InBooks /\ [Next]_vars => InBooks' /\ [Books!Next]_(Books!vars)
  /\ InBooks /\ [Next]_vars /\ UNCHANGED Books!vars => UNCHANGED vars
  /\ ~InBooks /\ [Next]_vars => ~InBooks'
BY PartStays DEF Init, Next, UnusedStay, vars, Books!vars, InBooks

LEMMA PayoutAlone ==
  /\ Init /\ InPayout => Payout!Init
  /\ InPayout /\ [Next]_vars => InPayout' /\ [Payout!Next]_(Payout!vars)
  /\ InPayout /\ [Next]_vars /\ UNCHANGED Payout!vars => UNCHANGED vars
  /\ ~InPayout /\ [Next]_vars => ~InPayout'
BY PartStays DEF Init, Next, UnusedStay, vars, Payout!vars, InPayout

LEMMA PartnerAlone ==
  /\ Init /\ InPartner => Partner!Init
  /\ InPartner /\ [Next]_vars => InPartner' /\ [Partner!Next]_(Partner!vars)
  /\ InPartner /\ [Next]_vars /\ UNCHANGED Partner!vars => UNCHANGED vars
  /\ ~InPartner /\ [Next]_vars => ~InPartner'
BY PartStays DEF Init, Next, UnusedStay, vars, Partner!vars, InPartner

LEMMA GroupAlone ==
  /\ Init /\ InGroup => Group!Init
  /\ InGroup /\ [Next]_vars => InGroup' /\ [Group!Next]_(Group!vars)
  /\ InGroup /\ [Next]_vars /\ UNCHANGED Group!vars => UNCHANGED vars
  /\ ~InGroup /\ [Next]_vars => ~InGroup'
BY PartStays DEF Init, Next, UnusedStay, vars, Group!vars, InGroup

LEMMA ClubAlone ==
  /\ Init /\ InClub => Club!Init
  /\ InClub /\ [Next]_vars => InClub' /\ [Club!Next]_(Club!vars)
  /\ InClub /\ [Next]_vars /\ UNCHANGED Club!vars => UNCHANGED vars
  /\ ~InClub /\ [Next]_vars => ~InClub'
BY PartStays DEF Init, Next, UnusedStay, vars, Club!vars, InClub

LEMMA LoginAlone ==
  /\ Init /\ InLogin => Login!Init
  /\ InLogin /\ [Next]_vars => InLogin' /\ [Login!Next]_(Login!vars)
  /\ InLogin /\ [Next]_vars /\ UNCHANGED Login!vars => UNCHANGED vars
  /\ ~InLogin /\ [Next]_vars => ~InLogin'
BY PartStays DEF Init, Next, UnusedStay, vars, Login!vars, InLogin

LEMMA EntryAlone ==
  /\ Init /\ InEntry => Entry!Init
  /\ InEntry /\ [Next]_vars => InEntry' /\ [Entry!Next]_(Entry!vars)
  /\ InEntry /\ [Next]_vars /\ UNCHANGED Entry!vars => UNCHANGED vars
  /\ ~InEntry /\ [Next]_vars => ~InEntry'
BY PartStays DEF Init, Next, UnusedStay, vars, Entry!vars, InEntry

LEMMA MenuAlone ==
  /\ Init /\ InMenu => Menu!Init
  /\ InMenu /\ [Next]_vars => InMenu' /\ [Menu!Next]_(Menu!vars)
  /\ InMenu /\ [Next]_vars /\ UNCHANGED Menu!vars => UNCHANGED vars
  /\ ~InMenu /\ [Next]_vars => ~InMenu'
BY PartStays DEF Init, Next, UnusedStay, vars, Menu!vars, InMenu

LEMMA NetAlone ==
  /\ Init /\ InNet => Net!Init
  /\ InNet /\ [Next]_vars => InNet' /\ [Net!Next]_(Net!vars)
  /\ InNet /\ [Next]_vars /\ UNCHANGED Net!vars => UNCHANGED vars
  /\ ~InNet /\ [Next]_vars => ~InNet'
BY PartStays DEF Init, Next, UnusedStay, vars, Net!vars, InNet

LEMMA TiersAlone ==
  /\ Init /\ InTiers => Tiers!Init
  /\ InTiers /\ [Next]_vars => InTiers' /\ [Tiers!Next]_(Tiers!vars)
  /\ InTiers /\ [Next]_vars /\ UNCHANGED Tiers!vars => UNCHANGED vars
  /\ ~InTiers /\ [Next]_vars => ~InTiers'
BY PartStays DEF Init, Next, UnusedStay, vars, Tiers!vars, InTiers

LEMMA ShopAlone ==
  /\ Init /\ InShop => Shop!Init
  /\ InShop /\ [Next]_vars => InShop' /\ [Shop!Next]_(Shop!vars)
  /\ InShop /\ [Next]_vars /\ UNCHANGED Shop!vars => UNCHANGED vars
  /\ ~InShop /\ [Next]_vars => ~InShop'
BY PartStays DEF Init, Next, UnusedStay, vars, Shop!vars, InShop

LEMMA PageAlone ==
  /\ Init /\ InPage => Page!Init
  /\ InPage /\ [Next]_vars => InPage' /\ [Page!Next]_(Page!vars)
  /\ InPage /\ [Next]_vars /\ UNCHANGED Page!vars => UNCHANGED vars
  /\ ~InPage /\ [Next]_vars => ~InPage'
BY PartStays DEF Init, Next, UnusedStay, vars, Page!vars, InPage

LEMMA HomeAlone ==
  /\ Init /\ InHome => Home!Init
  /\ InHome /\ [Next]_vars => InHome' /\ [Home!Next]_(Home!vars)
  /\ InHome /\ [Next]_vars /\ UNCHANGED Home!vars => UNCHANGED vars
  /\ ~InHome /\ [Next]_vars => ~InHome'
BY PartStays DEF Init, Next, UnusedStay, vars, Home!vars, InHome

LEMMA WatchAlone ==
  /\ Init /\ InWatch => Watch!Init
  /\ InWatch /\ [Next]_vars => InWatch' /\ [Watch!Next]_(Watch!vars)
  /\ InWatch /\ [Next]_vars /\ UNCHANGED Watch!vars => UNCHANGED vars
  /\ ~InWatch /\ [Next]_vars => ~InWatch'
BY PartStays DEF Init, Next, UnusedStay, vars, Watch!vars, InWatch

LEMMA SecretAlone ==
  /\ Init /\ InSecret => Secret!Init
  /\ InSecret /\ [Next]_vars => InSecret' /\ [Secret!Next]_(Secret!vars)
  /\ InSecret /\ [Next]_vars /\ UNCHANGED Secret!vars => UNCHANGED vars
  /\ ~InSecret /\ [Next]_vars => ~InSecret'
BY PartStays DEF Init, Next, UnusedStay, vars, Secret!vars, InSecret

LEMMA BootAlone ==
  /\ Init /\ InBoot => Boot!Init
  /\ InBoot /\ [Next]_vars => InBoot' /\ [Boot!Next]_(Boot!vars)
  /\ InBoot /\ [Next]_vars /\ UNCHANGED Boot!vars => UNCHANGED vars
  /\ ~InBoot /\ [Next]_vars => ~InBoot'
BY PartStays DEF Init, Next, UnusedStay, vars, Boot!vars, InBoot

LEMMA NearAlone ==
  /\ Init /\ InNear => Near!Init
  /\ InNear /\ [Next]_vars => InNear' /\ [Near!Next]_(Near!vars)
  /\ InNear /\ [Next]_vars /\ UNCHANGED Near!vars => UNCHANGED vars
  /\ ~InNear /\ [Next]_vars => ~InNear'
BY PartStays DEF Init, Next, UnusedStay, vars, Near!vars, InNear

LEMMA DeskAlone ==
  /\ Init /\ InDesk => Desk!Init
  /\ InDesk /\ [Next]_vars => InDesk' /\ [Desk!Next]_(Desk!vars)
  /\ InDesk /\ [Next]_vars /\ UNCHANGED Desk!vars => UNCHANGED vars
  /\ ~InDesk /\ [Next]_vars => ~InDesk'
BY PartStays DEF Init, Next, UnusedStay, vars, Desk!vars, InDesk

LEMMA ScreenAlone ==
  /\ Init /\ InScreen => Screen!Init
  /\ InScreen /\ [Next]_vars => InScreen' /\ [Screen!Next]_(Screen!vars)
  /\ InScreen /\ [Next]_vars /\ UNCHANGED Screen!vars => UNCHANGED vars
  /\ ~InScreen /\ [Next]_vars => ~InScreen'
BY PartStays DEF Init, Next, UnusedStay, vars, Screen!vars, InScreen

\* A settlement is paid if and only if its payment is in the books, an entry is settled once and
\* an approved expense booked, for any number of clerks who settle, pay and review at once.
THEOREM BooksAgreeHolds == Spec => []BooksAgree
<1>1. Books!Spec => [](Books!PaidHasPayment /\ Books!SettledOnce /\ Books!ExpenseBooked)
  <2>1. BooksAreCounted
    BY ServicesAssumption
  <2> QED
    BY <2>1, PaidHasPaymentHolds, SettledOnceHolds, ExpenseBookedHolds, PTL
<1>2. Spec => [](InBooks => Books!PaidHasPayment /\ Books!SettledOnce /\ Books!ExpenseBooked)
  BY <1>1, BooksAlone, PTL DEF Spec, Books!Spec
<1>3. (InBooks => Books!PaidHasPayment /\ Books!SettledOnce /\ Books!ExpenseBooked) => BooksAgree
  BY DEF BooksAgree, InBooks
<1> QED
  BY <1>2, <1>3, PTL

\* A commission goes out with one batch, and only when its order was past dispute, for any
\* number of orders, commissions, batches and requests.
THEOREM CommissionsPayOnceHolds == Spec => []CommissionsPayOnce
<1>1. Payout!Spec => [](Payout!BatchedOnce /\ Payout!EarnedAfterDispute)
  BY BatchedOnceHolds, EarnedAfterDisputeHolds, PTL
<1>2. Spec => [](InPayout => Payout!BatchedOnce /\ Payout!EarnedAfterDispute)
  BY <1>1, PayoutAlone, PTL DEF Spec, Payout!Spec
<1>3. (InPayout => Payout!BatchedOnce /\ Payout!EarnedAfterDispute) => CommissionsPayOnce
  BY DEF CommissionsPayOnce, InPayout
<1> QED
  BY <1>2, <1>3, PTL

\* A supply document does its work once, a delivery its shipper ended has its proof, a request
\* of a customer and its alert are closed together, by one: whoever acts on them at once.
THEOREM DocumentsActOnceHolds == Spec => []DocumentsActOnce
<1>1. Goods!Spec => []Goods!ReceivedOnce
  BY ReceivedOnceHolds, PTL
<1>2. Shelf!Spec => []Shelf!ShortageOnce
  BY ShortageOnceHolds, PTL
<1>3. Kitchen!Spec => []Kitchen!ReceivedWithinOrder
  <2>1. UnitsAreCounted
    BY ServicesAssumption
  <2> QED
    BY <2>1, ReceivedWithinHolds, PTL
<1>4. Home!Spec => [](Home!EndHasProof /\ Home!PhotoIsKept)
  <2>1. DayIsCounted
    BY ServicesAssumption
  <2> QED
    BY <2>1, EndHasProofHolds, PhotoIsKeptHolds, PTL
<1>5. Desk!Spec => [](Desk!ClosedTogether /\ Desk!ResolvedByOne /\ Desk!SentIsStored)
  BY ClosedTogetherHolds, ResolvedByOneHolds, SentIsStoredHolds, PTL
<1>6. Spec => [](InGoods => Goods!ReceivedOnce)
  BY <1>1, GoodsAlone, PTL DEF Spec, Goods!Spec
<1>7. Spec => [](InShelf => Shelf!ShortageOnce)
  BY <1>2, ShelfAlone, PTL DEF Spec, Shelf!Spec
<1>8. Spec => [](InKitchen => Kitchen!ReceivedWithinOrder)
  BY <1>3, KitchenAlone, PTL DEF Spec, Kitchen!Spec
<1>9. Spec => [](InHome => Home!EndHasProof /\ Home!PhotoIsKept)
  BY <1>4, HomeAlone, PTL DEF Spec, Home!Spec
<1>10. Spec => [](InDesk => Desk!ClosedTogether /\ Desk!ResolvedByOne /\ Desk!SentIsStored)
  BY <1>5, DeskAlone, PTL DEF Spec, Desk!Spec
<1>11. (InGoods => Goods!ReceivedOnce) /\
      (InShelf => Shelf!ShortageOnce) /\
      (InKitchen => Kitchen!ReceivedWithinOrder) /\
      (InHome => Home!EndHasProof /\ Home!PhotoIsKept) /\
      (InDesk => Desk!ClosedTogether /\ Desk!ResolvedByOne /\ Desk!SentIsStored)
      => DocumentsActOnce
  BY DEF DocumentsActOnce, InGoods, InShelf, InKitchen, InHome, InDesk
<1> QED
  BY <1>6, <1>7, <1>8, <1>9, <1>10, <1>11, PTL

\* Whom the system lets in: one account per phone, one role per account, sessions in force, a
\* paced client, for any number of processes, sessions, members and clocks.
THEOREM AccountsAdmitHolds == Spec => []AccountsAdmit
<1>1. Login!Spec => [](Login!OneAccountPerPhone /\ Login!RequestsArePaced)
  <2>1. PaceIsSet
    BY ServicesAssumption
  <2> QED
    BY <2>1, OneAccountPerPhoneHolds, RequestsArePacedHolds, PTL
<1>2. Entry!Spec => [](Entry!ServedInForce /\ Entry!AudiencesApart)
  BY ServedInForceHolds, AudiencesApartHolds, PTL
<1>3. Net!Spec => [](Net!OneRole /\ Net!CodesApart)
  <2>1. SitesAreCounted
    BY ServicesAssumption
  <2> QED
    BY <2>1, OneRoleHolds, CodesApartHolds, PTL
<1>4. Spec => [](InLogin => Login!OneAccountPerPhone /\ Login!RequestsArePaced)
  BY <1>1, LoginAlone, PTL DEF Spec, Login!Spec
<1>5. Spec => [](InEntry => Entry!ServedInForce /\ Entry!AudiencesApart)
  BY <1>2, EntryAlone, PTL DEF Spec, Entry!Spec
<1>6. Spec => [](InNet => Net!OneRole /\ Net!CodesApart)
  BY <1>3, NetAlone, PTL DEF Spec, Net!Spec
<1>7. (InLogin => Login!OneAccountPerPhone /\ Login!RequestsArePaced) /\
      (InEntry => Entry!ServedInForce /\ Entry!AudiencesApart) /\
      (InNet => Net!OneRole /\ Net!CodesApart)
      => AccountsAdmit
  BY DEF AccountsAdmit, InLogin, InEntry, InNet
<1> QED
  BY <1>4, <1>5, <1>6, <1>7, PTL

\* A cart becomes one order within a visit, through retries and lost answers, and the order costs
\* the delivery fee it was quoted.
THEOREM CheckoutsHoldHolds == Spec => []CheckoutsHold
<1>1. Shop!Spec => []Shop!OneOrderPerCheckout
  <2>1. ShopIsBounded
    BY ServicesAssumption
  <2> QED
    BY <2>1, OneOrderPerCheckoutHolds, PTL
<1>2. Home!Spec => []Home!FeeIsQuoted
  <2>1. DayIsCounted
    BY ServicesAssumption
  <2> QED
    BY <2>1, FeeIsQuotedHolds, PTL
<1>3. Spec => [](InShop => Shop!OneOrderPerCheckout)
  BY <1>1, ShopAlone, PTL DEF Spec, Shop!Spec
<1>4. Spec => [](InHome => Home!FeeIsQuoted)
  BY <1>2, HomeAlone, PTL DEF Spec, Home!Spec
<1>5. (InShop => Shop!OneOrderPerCheckout) /\
      (InHome => Home!FeeIsQuoted)
      => CheckoutsHold
  BY DEF CheckoutsHold, InShop, InHome
<1> QED
  BY <1>3, <1>4, <1>5, PTL

\* A group has one order and its host the reward of that order; a click is credited to the order
\* it led to, and codes of a paused affiliate rest, for any visits, codes and requests.
THEOREM CreditsMatchOrdersHolds == Spec => []CreditsMatchOrders
<1>1. Group!Spec => [](Group!OneOrderPerRoom /\ Group!RewardMatchesOrder)
  <2>1. RoomIsNamed
    BY ServicesAssumption
  <2> QED
    BY <2>1, OneOrderPerRoomHolds, RewardMatchesOrderHolds, PTL
<1>2. Partner!Spec => [](Partner!ClickMatchesOrder /\ Partner!PausedCodesRest)
  BY ClickMatchesOrderHolds, PausedCodesRestHolds, PTL
<1>3. Spec => [](InGroup => Group!OneOrderPerRoom /\ Group!RewardMatchesOrder)
  BY <1>1, GroupAlone, PTL DEF Spec, Group!Spec
<1>4. Spec => [](InPartner => Partner!ClickMatchesOrder /\ Partner!PausedCodesRest)
  BY <1>2, PartnerAlone, PTL DEF Spec, Partner!Spec
<1>5. (InGroup => Group!OneOrderPerRoom /\ Group!RewardMatchesOrder) /\
      (InPartner => Partner!ClickMatchesOrder /\ Partner!PausedCodesRest)
      => CreditsMatchOrders
  BY DEF CreditsMatchOrders, InGroup, InPartner
<1> QED
  BY <1>3, <1>4, <1>5, PTL

\* What runs unattended does its work, for any number of checks, erasures, processes that start
\* and copies of the settings.
THEOREM UpkeepHoldsHolds == Spec => []UpkeepHolds
<1>1. Watch!Spec => [](Watch!AlertsApart /\ Watch!OpenIsAlerted)
  <2>1. AlertsAreTimed
    BY ServicesAssumption
  <2> QED
    BY <2>1, AlertsApartHolds, OpenIsAlertedHolds, PTL
<1>2. Secret!Spec => [](Secret!ErasedStaysErased /\ Secret!AnsweredIsLogged)
  BY ErasedStaysErasedHolds, AnsweredIsLoggedHolds, PTL
<1>3. Boot!Spec => [](Boot!ServedSchemaIsComplete /\ Boot!SchemaIsWhole)
  <2>1. ImagesAreCounted
    BY ServicesAssumption
  <2> QED
    BY <2>1, ServedSchemaIsCompleteHolds, SchemaIsWholeHolds, PTL
<1>4. Tiers!Spec => []Tiers!StaleAtMostTTL
  <2>1. SettingsAreTimed
    BY ServicesAssumption
  <2> QED
    BY <2>1, StaleAtMostTTLHolds, PTL
<1>5. Spec => [](InWatch => Watch!AlertsApart /\ Watch!OpenIsAlerted)
  BY <1>1, WatchAlone, PTL DEF Spec, Watch!Spec
<1>6. Spec => [](InSecret => Secret!ErasedStaysErased /\ Secret!AnsweredIsLogged)
  BY <1>2, SecretAlone, PTL DEF Spec, Secret!Spec
<1>7. Spec => [](InBoot => Boot!ServedSchemaIsComplete /\ Boot!SchemaIsWhole)
  BY <1>3, BootAlone, PTL DEF Spec, Boot!Spec
<1>8. Spec => [](InTiers => Tiers!StaleAtMostTTL)
  BY <1>4, TiersAlone, PTL DEF Spec, Tiers!Spec
<1>9. (InWatch => Watch!AlertsApart /\ Watch!OpenIsAlerted) /\
      (InSecret => Secret!ErasedStaysErased /\ Secret!AnsweredIsLogged) /\
      (InBoot => Boot!ServedSchemaIsComplete /\ Boot!SchemaIsWhole) /\
      (InTiers => Tiers!StaleAtMostTTL)
      => UpkeepHolds
  BY DEF UpkeepHolds, InWatch, InSecret, InBoot, InTiers
<1> QED
  BY <1>5, <1>6, <1>7, <1>8, <1>9, PTL

LEMMA ProductCounts ==
  ASSUME "amend" \notin OfferedKinds, "stock" \notin OfferedKinds
  PROVE  Product!Spec => [](Product!StockConserved /\ Product!ReservedMatchesReservations)
BY ProductAssumption, Product!StockConservedHolds

\* Orders that compete for the units of a product neither make nor lose one, the reserved counter
\* is the sum of the active reservations, and the till agrees with its shifts and remittances.
\* An amendment and an edit of the stock row are left out, as in StockConservedHolds.
THEOREM CountersAgreeHolds ==
  ASSUME "amend" \notin OfferedKinds, "stock" \notin OfferedKinds
  PROVE  Spec => []CountersAgree
<1>1. Product!Spec => [](Product!StockConserved /\ Product!ReservedMatchesReservations)
  BY ProductCounts
<1>2. Drawer!Spec => [](Drawer!RemittanceIsBacked /\ Drawer!OneOpenShift)
  <2>1. TillIsNamed
    BY ServicesAssumption
  <2> QED
    BY <2>1, RemittanceIsBackedHolds, OneOpenShiftHolds, PTL
<1>3. Spec => [](InProduct => Product!StockConserved /\ Product!ReservedMatchesReservations)
  BY <1>1, ProductAlone, PTL DEF Spec, Product!Spec
<1>4. Spec => [](InDrawer => Drawer!RemittanceIsBacked /\ Drawer!OneOpenShift)
  BY <1>2, DrawerAlone, PTL DEF Spec, Drawer!Spec
<1>5. (InProduct => Product!StockConserved /\ Product!ReservedMatchesReservations) /\
      (InDrawer => Drawer!RemittanceIsBacked /\ Drawer!OneOpenShift)
      => CountersAgree
  BY DEF CountersAgree, InProduct, InDrawer
<1> QED
  BY <1>3, <1>4, <1>5, PTL

\* What the readers see is complete and in order: the paged list, the stream of events, the portal
\* page and the order page, for any number of orders, users, stores, places and requests on their way.
THEOREM ReadsAreCompleteHolds == Spec => []ReadsAreComplete
<1>1. Screen!Spec => [](Screen!PagesListOnce /\ Screen!StreamSkipsNone)
  <2>1. OrdersAreNumbered
    BY ServicesAssumption
  <2> QED
    BY <2>1, PagesListOnceHolds, StreamSkipsNoneHolds, PTL
<1>2. Page!Spec => [](Page!PageIsFresh /\ Page!DataIsOwn)
  BY PageIsFreshHolds, DataIsOwnHolds, PTL
<1>3. Near!Spec => [](Near!ShownIsChosen /\ Near!NearestServes)
  <2>1. StoresArePlaced
    BY ServicesAssumption
  <2> QED
    BY <2>1, ShownIsChosenHolds, NearestServesHolds, PTL
<1>4. Spec => [](InScreen => Screen!PagesListOnce /\ Screen!StreamSkipsNone)
  BY <1>1, ScreenAlone, PTL DEF Spec, Screen!Spec
<1>5. Spec => [](InPage => Page!PageIsFresh /\ Page!DataIsOwn)
  BY <1>2, PageAlone, PTL DEF Spec, Page!Spec
<1>6. Spec => [](InNear => Near!ShownIsChosen /\ Near!NearestServes)
  BY <1>3, NearAlone, PTL DEF Spec, Near!Spec
<1>7. (InScreen => Screen!PagesListOnce /\ Screen!StreamSkipsNone) /\
      (InPage => Page!PageIsFresh /\ Page!DataIsOwn) /\
      (InNear => Near!ShownIsChosen /\ Near!NearestServes)
      => ReadsAreComplete
  BY DEF ReadsAreComplete, InScreen, InPage, InNear
<1> QED
  BY <1>4, <1>5, <1>6, <1>7, PTL

\* No step changes what is final: a closed shift or period, a finished batch, what was received,
\* a paid commission, an order that ended, an approval.
THEOREM FinalStaysHolds == Spec => FinalStays
<1>1. Spec => [][InDrawer => Drawer!ClosedIsFinal]_vars
  <2>1. TillIsNamed
    BY ServicesAssumption
  <2>2. Drawer!Spec => [][Drawer!ClosedIsFinal]_(Drawer!vars)
    BY <2>1, ClosedShiftIsFinal, PTL
  <2>3. InDrawer /\ [Next]_vars /\ [Drawer!ClosedIsFinal]_(Drawer!vars)
        => [InDrawer => Drawer!ClosedIsFinal]_vars
    BY DrawerAlone
  <2> QED
    BY <2>2, <2>3, DrawerAlone, PTL DEF Spec, Drawer!Spec
<1>2. Spec => [][InKitchen => Kitchen!YieldIsFinal /\ Kitchen!ReceiptsStay]_vars
  <2>1. UnitsAreCounted
    BY ServicesAssumption
  <2>2. Kitchen!Spec => [][Kitchen!YieldIsFinal /\ Kitchen!ReceiptsStay]_(Kitchen!vars)
    BY <2>1, YieldIsFinalHolds, ReceiptsStayHolds, PTL
  <2>3. InKitchen /\ [Next]_vars /\ [Kitchen!YieldIsFinal /\ Kitchen!ReceiptsStay]_(Kitchen!vars)
        => [InKitchen => Kitchen!YieldIsFinal /\ Kitchen!ReceiptsStay]_vars
    BY KitchenAlone
  <2> QED
    BY <2>2, <2>3, KitchenAlone, PTL DEF Spec, Kitchen!Spec
<1>3. Spec => [][InBooks => Books!ClosedBooksStay]_vars
  <2>1. BooksAreCounted
    BY ServicesAssumption
  <2>2. Books!Spec => [][Books!ClosedBooksStay]_(Books!vars)
    BY <2>1, ClosedBooksStayHolds, PTL
  <2>3. InBooks /\ [Next]_vars /\ [Books!ClosedBooksStay]_(Books!vars)
        => [InBooks => Books!ClosedBooksStay]_vars
    BY BooksAlone
  <2> QED
    BY <2>2, <2>3, BooksAlone, PTL DEF Spec, Books!Spec
<1>4. Spec => [][InPayout => Payout!PaidIsFinal]_vars
  <2>1. Payout!Spec => [][Payout!PaidIsFinal]_(Payout!vars)
    BY PaidIsFinalHolds, PTL
  <2>2. InPayout /\ [Next]_vars /\ [Payout!PaidIsFinal]_(Payout!vars)
        => [InPayout => Payout!PaidIsFinal]_vars
    BY PayoutAlone
  <2> QED
    BY <2>1, <2>2, PayoutAlone, PTL DEF Spec, Payout!Spec
<1>5. Spec => [][InShop => Shop!EndedStays]_vars
  <2>1. ShopIsBounded
    BY ServicesAssumption
  <2>2. Shop!Spec => [][Shop!EndedStays]_(Shop!vars)
    BY <2>1, EndedStaysHolds, PTL
  <2>3. InShop /\ [Next]_vars /\ [Shop!EndedStays]_(Shop!vars)
        => [InShop => Shop!EndedStays]_vars
    BY ShopAlone
  <2> QED
    BY <2>2, <2>3, ShopAlone, PTL DEF Spec, Shop!Spec
<1>6. Spec => [][InDesk => Desk!ApprovedStays]_vars
  <2>1. Desk!Spec => [][Desk!ApprovedStays]_(Desk!vars)
    BY ApprovedStaysHolds, PTL
  <2>2. InDesk /\ [Next]_vars /\ [Desk!ApprovedStays]_(Desk!vars)
        => [InDesk => Desk!ApprovedStays]_vars
    BY DeskAlone
  <2> QED
    BY <2>1, <2>2, DeskAlone, PTL DEF Spec, Desk!Spec
<1>7. [InDrawer => Drawer!ClosedIsFinal]_vars /\
      [InKitchen => Kitchen!YieldIsFinal /\ Kitchen!ReceiptsStay]_vars /\
      [InBooks => Books!ClosedBooksStay]_vars /\
      [InPayout => Payout!PaidIsFinal]_vars /\
      [InShop => Shop!EndedStays]_vars /\
      [InDesk => Desk!ApprovedStays]_vars
      => [ /\ part = "drawer" => Drawer!ClosedIsFinal
           /\ part = "kitchen" => Kitchen!YieldIsFinal /\ Kitchen!ReceiptsStay
           /\ part = "books" => Books!ClosedBooksStay
           /\ part = "payout" => Payout!PaidIsFinal
           /\ part = "shop" => Shop!EndedStays
           /\ part = "desk" => Desk!ApprovedStays ]_vars
  BY DEF InDrawer, InKitchen, InBooks, InPayout, InShop, InDesk
<1> QED
  BY <1>1, <1>2, <1>3, <1>4, <1>5, <1>6, <1>7, PTL DEF FinalStays

\* No step passes a code to another affiliate or a profile to another account, and none but the
\* customer's own changes the store the customer chose.
THEOREM OwnersStayHolds == Spec => OwnersStay
<1>1. Spec => [][InPartner => Partner!CodeKeepsOwner]_vars
  <2>1. Partner!Spec => [][Partner!CodeKeepsOwner]_(Partner!vars)
    BY CodeKeepsOwnerHolds, PTL
  <2>2. InPartner /\ [Next]_vars /\ [Partner!CodeKeepsOwner]_(Partner!vars)
        => [InPartner => Partner!CodeKeepsOwner]_vars
    BY PartnerAlone
  <2> QED
    BY <2>1, <2>2, PartnerAlone, PTL DEF Spec, Partner!Spec
<1>2. Spec => [][InClub => Club!ProfileKeepsAccount]_vars
  <2>1. Club!Spec => [][Club!ProfileKeepsAccount]_(Club!vars)
    BY ProfileKeepsAccountHolds, PTL
  <2>2. InClub /\ [Next]_vars /\ [Club!ProfileKeepsAccount]_(Club!vars)
        => [InClub => Club!ProfileKeepsAccount]_vars
    BY ClubAlone
  <2> QED
    BY <2>1, <2>2, ClubAlone, PTL DEF Spec, Club!Spec
<1>3. Spec => [][InNear => Near!StoreIsKept]_vars
  <2>1. Near!Spec => [][Near!StoreIsKept]_(Near!vars)
    BY StoreIsKeptHolds, PTL
  <2>2. InNear /\ [Next]_vars /\ [Near!StoreIsKept]_(Near!vars)
        => [InNear => Near!StoreIsKept]_vars
    BY NearAlone
  <2> QED
    BY <2>1, <2>2, NearAlone, PTL DEF Spec, Near!Spec
<1>4. [InPartner => Partner!CodeKeepsOwner]_vars /\
      [InClub => Club!ProfileKeepsAccount]_vars /\
      [InNear => Near!StoreIsKept]_vars
      => [ /\ part = "partner" => Partner!CodeKeepsOwner
           /\ part = "club" => Club!ProfileKeepsAccount
           /\ part = "near" => Near!StoreIsKept ]_vars
  BY DEF InPartner, InClub, InNear
<1> QED
  BY <1>1, <1>2, <1>3, <1>4, PTL DEF OwnersStay

\* No edit takes back a price or a closure that another request set meanwhile and it does not name.
THEOREM EditsKeepHolds == Spec => EditsKeep
<1>1. Spec => [][InMenu => Menu!EditsKeepPrice]_vars
  <2>1. WritersAreNamed
    BY ServicesAssumption
  <2>2. Menu!Spec => [][Menu!EditsKeepPrice]_(Menu!vars)
    BY <2>1, EditsKeepPriceHolds, PTL
  <2>3. InMenu /\ [Next]_vars /\ [Menu!EditsKeepPrice]_(Menu!vars)
        => [InMenu => Menu!EditsKeepPrice]_vars
    BY MenuAlone
  <2> QED
    BY <2>2, <2>3, MenuAlone, PTL DEF Spec, Menu!Spec
<1>2. Spec => [][InNet => Net!EditsKeepStatus]_vars
  <2>1. SitesAreCounted
    BY ServicesAssumption
  <2>2. Net!Spec => [][Net!EditsKeepStatus]_(Net!vars)
    BY <2>1, EditsKeepStatusHolds, PTL
  <2>3. InNet /\ [Next]_vars /\ [Net!EditsKeepStatus]_(Net!vars)
        => [InNet => Net!EditsKeepStatus]_vars
    BY NetAlone
  <2> QED
    BY <2>2, <2>3, NetAlone, PTL DEF Spec, Net!Spec
<1>3. [InMenu => Menu!EditsKeepPrice]_vars /\
      [InNet => Net!EditsKeepStatus]_vars
      => [ /\ part = "menu" => Menu!EditsKeepPrice
           /\ part = "net" => Net!EditsKeepStatus ]_vars
  BY DEF InMenu, InNet
<1> QED
  BY <1>1, <1>2, <1>3, PTL DEF EditsKeep

=============================================================================
