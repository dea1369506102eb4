----------------------- MODULE AdamHallCheckoutProofs -----------------------
(***************************************************************************)
(* Theorems about AdamHallCheckout for any orders, preparations, articles, *)
(* quantities and prices.                                                  *)
(*                                                                         *)
(* That the durable rows are consistent (Base) needs no assumption.  That  *)
(* the shop is paid for exactly what was reviewed rests on QuietCheckout:  *)
(* between the last look at the cart and the paying request neither        *)
(* people, price changes nor an abandoned fast order touch it, and the     *)
(* mutex keeps the program's other requests out (Exclusive), so what was   *)
(* checked is what is paid (Checked).                                      *)
(***************************************************************************)
EXTENDS AdamHallCheckout, TLAPS

(* A row and the request working on it. *)
Rows ==
  \A c \in Checkouts :
    /\ state[c] = "ready" => snapshot[c] \in Carts
    /\ prep[c] = "quoted" => quote[c] \in Carts
    /\ prep[c] # "none" => state[c] = "preparing"

(* An order and the checkout claimed for it. *)
Claims ==
  \A o \in Orders :
    /\ Unclaimed(o) => send[o] = "none" /\ paid[o] = <<>>
    /\ ~Unclaimed(o) => /\ state[claimed[o]] = "ready"
                        /\ price[o] = snapshot[claimed[o]].price
    /\ send[o] # "none" => paid[o] = <<>>

Answers ==
  \A c \in Checkouts :
    /\ state[c] = "none" => receipt[c] = "none"
    /\ receipt[c] \notin {"none", "pending"} => receipt[c] = state[c]
    /\ state[c] = "preparing" => receipt[c] = "pending"

Base == TypeOK /\ Rows /\ Claims /\ Answers

(* The mutex: while a cart is checked for payment nothing else is between *)
(* two requests to the shop.                                              *)
Exclusive ==
  \A o \in Orders : send[o] = "checked" =>
    /\ \A c \in Checkouts : prep[c] \notin {"empty", "stocked"}
    /\ \A p \in Orders : send[p] = "checked" => p = o

(* What was checked is still so. *)
Checked == \A o \in Orders : send[o] = "checked" => StillReviewed(o)

Inv == Base /\ Exclusive /\ Checked /\ PaidAsReviewed /\ PaidIsOrdered

USE CheckoutConstants, NoCartIsNone DEF CheckoutConstants, NoCartIsNone

USE DEF order, checkout, jobs, supplier

ShopStates == [lines : [Articles -> 0..Quantity], price : Prices]

LEMMA LinesFacts ==
  /\ Empty \in Lines
  /\ OrderLines \subseteq Lines
  /\ [Articles -> 0..Quantity] \subseteq Lines
BY DEF Empty, OrderLines, Lines

(* A fast order, carried out in part or whole, adds no more than its items *)
(* to the cart and takes nothing out.                                      *)
LEMMA ShopAddsFacts ==
  ASSUME TypeOK, NEW c \in Checkouts, ShopAdds(c)
  PROVE  /\ shop' \in Carts
         /\ \A a \in Articles :
              /\ shop'.lines[a] \in Nat
              /\ shop'.lines[a] >= shop.lines[a]
              /\ shop'.lines[a] <= shop.lines[a] + items[c][a]
<1>1. shop.lines \in Lines /\ items[c] \in Lines
  BY DEF TypeOK, Carts
<1>2. PICK part \in [Articles -> 0..Quantity] :
        /\ \A a \in Articles : part[a] <= items[c][a]
        /\ shop' = [shop EXCEPT !.lines =
                      [a \in Articles |-> shop.lines[a] + part[a]]]
  BY DEF ShopAdds
<1> DEFINE sum == [a \in Articles |-> shop.lines[a] + part[a]]
<1>3. \A a \in Articles : /\ sum[a] \in Nat
                          /\ sum[a] >= shop.lines[a]
                          /\ sum[a] <= shop.lines[a] + items[c][a]
  BY <1>1, <1>2 DEF Lines
<1>4. sum \in Lines
  BY <1>3 DEF Lines
<1>5. shop' \in Carts /\ shop'.lines = sum
  BY <1>2, <1>4 DEF TypeOK, Carts
<1> HIDE DEF sum
<1> QED
  BY <1>3, <1>5

-----------------------------------------------------------------------------
LEMMA InitBase == Init => Base
<1> SUFFICES ASSUME Init PROVE Base
  OBVIOUS
<1>1. shop \in Carts
  BY LinesFacts DEF Init, Carts
<1>2. lines \in [Orders -> Lines]
  BY LinesFacts DEF Init
<1>3. <<>> \in Seq(Carts)
  OBVIOUS
<1>4. TypeOK
  BY <1>1, <1>2, <1>3, LinesFacts DEF Init, TypeOK, Preparing
<1>5. Rows /\ Claims /\ Answers
  BY DEF Init, Rows, Claims, Answers, Unclaimed
<1> QED
  BY <1>4, <1>5 DEF Base

(* A preparation that is being saved belongs to no claimed order. *)
LEMMA ClaimedRowsStay ==
  ASSUME Base, NEW c \in Checkouts, SaveCart(c)
  PROVE  \A o \in Orders : ~Unclaimed(o) =>
           /\ state'[claimed[o]] = state[claimed[o]]
           /\ snapshot'[claimed[o]] = snapshot[claimed[o]]
<1>1. state[c] = "preparing"
  BY DEF SaveCart, Base, Rows
<1>2. \A o \in Orders : ~Unclaimed(o) =>
        claimed[o] # c /\ claimed[o] \in Checkouts
  BY <1>1 DEF Base, Claims, TypeOK, Unclaimed
<1>3. \A d \in Checkouts \ {c} : state'[d] = state[d]
                               /\ snapshot'[d] = snapshot[d]
  BY DEF SaveCart, Base, TypeOK
<1> QED
  BY <1>2, <1>3

(* The first booking for an order. *)
LEMMA FirstBooking ==
  ASSUME Base, NEW o \in Orders, PlaceOrder(o)
  PROVE  /\ ~Unclaimed(o)
         /\ paid'[o] = <<shop>>
         /\ \A p \in Orders \ {o} : paid'[p] = paid[p]
<1>1. ~Unclaimed(o) /\ paid[o] = <<>>
  BY DEF PlaceOrder, Base, Claims
<1>2. Append(<<>>, shop) = <<shop>>
  OBVIOUS
<1> QED
  BY <1>1, <1>2 DEF PlaceOrder, Base, TypeOK

(* Each step keeps the types and the rows consistent. *)
LEMMA TypeStep ==
  Base /\ [Next]_vars => TypeOK'
<1> SUFFICES ASSUME Base, [Next]_vars
             PROVE  TypeOK'
  OBVIOUS
<1>1. ASSUME NEW o \in Orders, NEW q \in OrderLines, EditOrder(o, q)
      PROVE  TypeOK'
  <2>1. q \in Lines /\ version[o] + 1 \in Nat
    BY LinesFacts DEF Base, TypeOK
  <2> QED
    BY <1>1, <2>1 DEF EditOrder, Base, TypeOK, Preparing
<1>2. ASSUME NEW o \in Orders, NEW c \in Checkouts, ClaimCart(c, o)
      PROVE  TypeOK'
  BY <1>2 DEF ClaimCart, Base, TypeOK, Preparing
<1>3. ASSUME NEW o \in Orders, NEW c \in Checkouts, ClaimSend(c, o)
      PROVE  TypeOK'
  <2>1. snapshot[c] \in Carts
    BY <1>3 DEF ClaimSend, Payable, Base, Rows
  <2>2. snapshot[c].price \in Prices
    BY <2>1 DEF Carts
  <2> QED
    BY <1>3, <2>2 DEF ClaimSend, Base, TypeOK, Preparing
<1>4. ASSUME NEW o \in Orders, CheckCart(o)
      PROVE  TypeOK'
  BY <1>4 DEF CheckCart, Base, TypeOK, Preparing
<1>5. ASSUME NEW o \in Orders, PlaceOrder(o)
      PROVE  TypeOK'
  <2>1. [shop EXCEPT !.lines = Empty] \in Carts
    BY LinesFacts DEF Base, TypeOK, Carts
  <2>2. Append(paid[o], shop) \in Seq(Carts)
    BY DEF Base, TypeOK
  <2> QED
    BY <1>5, <2>1, <2>2 DEF PlaceOrder, Base, TypeOK, Preparing
<1>6. ASSUME NEW o \in Orders, SendFails(o)
      PROVE  TypeOK'
  BY <1>6 DEF SendFails, Base, TypeOK, Preparing
<1>7. ASSUME NEW c \in Checkouts, ReadCart(c)
      PROVE  TypeOK'
  BY <1>7 DEF ReadCart, Base, TypeOK, Preparing
<1>8. ASSUME NEW c \in Checkouts, FillCart(c)
      PROVE  TypeOK'
  <2>1. prep' \in [Checkouts -> Preparing]
    BY <1>8 DEF FillCart, Base, TypeOK, Preparing
  <2>2. shop' \in Carts
    BY <1>8, ShopAddsFacts DEF FillCart, Base
  <2> QED
    BY <1>8, <2>1, <2>2 DEF FillCart, Base, TypeOK
<1>9. ASSUME NEW c \in Checkouts, QuoteCart(c)
      PROVE  TypeOK'
  <2>1. PICK p \in Preparing : prep' = [prep EXCEPT ![c] = p]
    BY <1>9 DEF QuoteCart, Preparing
  <2>2. quote' \in [Checkouts -> Carts \cup {NoCart}]
    BY <1>9 DEF QuoteCart, Base, TypeOK
  <2> QED
    BY <1>9, <2>1, <2>2 DEF QuoteCart, Base, TypeOK
<1>10. ASSUME NEW c \in Checkouts, PreparationFails(c)
       PROVE  TypeOK'
  BY <1>10 DEF PreparationFails, Base, TypeOK, Preparing
<1>11. ASSUME NEW c \in Checkouts, SaveCart(c)
       PROVE  TypeOK'
  BY <1>11 DEF SaveCart, Base, TypeOK, Preparing
<1>12. ASSUME NEW c \in Checkouts, FinishCart(c)
       PROVE  TypeOK'
  BY <1>12 DEF FinishCart, Base, TypeOK, Preparing
<1>13. ASSUME NEW c \in Checkouts, GrowOld(c)
       PROVE  TypeOK'
  BY <1>13 DEF GrowOld, Base, TypeOK, Preparing
<1>14. ASSUME NEW c \in Checkouts, SaveFails(c)
       PROVE  TypeOK'
  BY <1>14 DEF SaveFails, Base, TypeOK, Preparing
<1>15. ASSUME NEW s \in ShopStates, ChangeShop(s)
       PROVE  TypeOK'
  <2>1. s \in Carts
    BY LinesFacts DEF ShopStates, Carts
  <2>2. disturbed' \in BOOLEAN
    BY <1>15 DEF ChangeShop, Base, TypeOK
  <2> QED
    BY <1>15, <2>1, <2>2 DEF ChangeShop, Base, TypeOK, Preparing
<1>16. CASE Crash
  BY <1>16 DEF Crash, Base, TypeOK, Preparing
<1>17. CASE UNCHANGED vars
  BY <1>17 DEF vars, Base, TypeOK, Preparing
<1>18. ASSUME NEW c \in Checkouts, LoseFastOrder(c)
       PROVE  TypeOK'
  BY <1>18 DEF LoseFastOrder, Base, TypeOK, Preparing
<1>19. ASSUME NEW c \in Checkouts, FillLate(c)
       PROVE  TypeOK'
  <2>1. shop' \in Carts
    BY <1>19, ShopAddsFacts DEF FillLate, Base
  <2>2. disturbed' \in BOOLEAN
    BY <1>19 DEF FillLate, Base, TypeOK
  <2> QED
    BY <1>19, <2>1, <2>2 DEF FillLate, Base, TypeOK
<1> QED
  BY <1>1, <1>2, <1>3, <1>4, <1>5, <1>6, <1>7, <1>8, <1>9, <1>10, <1>11,
     <1>12, <1>13, <1>14, <1>15, <1>16, <1>17, <1>18,
     <1>19 DEF Next, ShopStates

LEMMA RowsStep ==
  Base /\ [Next]_vars => Rows'
<1> SUFFICES ASSUME Base, [Next]_vars
             PROVE  Rows'
  OBVIOUS
<1>1. ASSUME NEW o \in Orders, NEW q \in OrderLines, EditOrder(o, q)
      PROVE  Rows'
  BY <1>1 DEF EditOrder, Base, TypeOK, Rows, Preparing
<1>2. ASSUME NEW o \in Orders, NEW c \in Checkouts, ClaimCart(c, o)
      PROVE  Rows'
  BY <1>2 DEF ClaimCart, Base, TypeOK, Rows, Preparing
<1>3. ASSUME NEW o \in Orders, NEW c \in Checkouts, ClaimSend(c, o)
      PROVE  Rows'
  BY <1>3 DEF ClaimSend, Base, TypeOK, Rows, Preparing
<1>4. ASSUME NEW o \in Orders, CheckCart(o)
      PROVE  Rows'
  BY <1>4 DEF CheckCart, Base, TypeOK, Rows, Preparing
<1>5. ASSUME NEW o \in Orders, PlaceOrder(o)
      PROVE  Rows'
  BY <1>5 DEF PlaceOrder, Base, TypeOK, Rows, Preparing
<1>6. ASSUME NEW o \in Orders, SendFails(o)
      PROVE  Rows'
  BY <1>6 DEF SendFails, Base, TypeOK, Rows, Preparing
<1>7. ASSUME NEW c \in Checkouts, ReadCart(c)
      PROVE  Rows'
  BY <1>7 DEF ReadCart, Base, TypeOK, Rows, Preparing
<1>8. ASSUME NEW c \in Checkouts, FillCart(c)
      PROVE  Rows'
  BY <1>8 DEF FillCart, Base, TypeOK, Rows, Preparing
<1>9. ASSUME NEW c \in Checkouts, QuoteCart(c)
      PROVE  Rows'
  BY <1>9 DEF QuoteCart, Base, TypeOK, Rows, Preparing
<1>10. ASSUME NEW c \in Checkouts, PreparationFails(c)
       PROVE  Rows'
  BY <1>10 DEF PreparationFails, Base, TypeOK, Rows, Preparing
<1>11. ASSUME NEW c \in Checkouts, SaveCart(c)
       PROVE  Rows'
  BY <1>11 DEF SaveCart, Base, TypeOK, Rows, Preparing
<1>12. ASSUME NEW c \in Checkouts, FinishCart(c)
       PROVE  Rows'
  BY <1>12 DEF FinishCart, Base, TypeOK, Rows, Preparing
<1>13. ASSUME NEW c \in Checkouts, GrowOld(c)
       PROVE  Rows'
  BY <1>13 DEF GrowOld, Base, TypeOK, Rows, Preparing
<1>14. ASSUME NEW c \in Checkouts, SaveFails(c)
       PROVE  Rows'
  BY <1>14 DEF SaveFails, Base, TypeOK, Rows, Preparing
<1>15. ASSUME NEW s \in ShopStates, ChangeShop(s)
       PROVE  Rows'
  BY <1>15 DEF ChangeShop, Base, TypeOK, Rows, Preparing
<1>16. CASE Crash
  BY <1>16 DEF Crash, Base, TypeOK, Rows, Preparing
<1>17. CASE UNCHANGED vars
  BY <1>17 DEF vars, Base, TypeOK, Rows, Preparing
<1>18. ASSUME NEW c \in Checkouts, LoseFastOrder(c)
       PROVE  Rows'
  BY <1>18 DEF LoseFastOrder, Base, TypeOK, Rows, Preparing
<1>19. ASSUME NEW c \in Checkouts, FillLate(c)
       PROVE  Rows'
  BY <1>19 DEF FillLate, Base, TypeOK, Rows, Preparing
<1> QED
  BY <1>1, <1>2, <1>3, <1>4, <1>5, <1>6, <1>7, <1>8, <1>9, <1>10, <1>11,
     <1>12, <1>13, <1>14, <1>15, <1>16, <1>17, <1>18,
     <1>19 DEF Next, ShopStates

LEMMA ClaimsStep ==
  Base /\ [Next]_vars => Claims'
<1> SUFFICES ASSUME Base, [Next]_vars
             PROVE  Claims'
  OBVIOUS
<1>1. ASSUME NEW o \in Orders, NEW q \in OrderLines, EditOrder(o, q)
      PROVE  Claims'
  BY <1>1 DEF EditOrder, Base, TypeOK, Rows, Claims, Unclaimed
<1>2. ASSUME NEW o \in Orders, NEW c \in Checkouts, ClaimCart(c, o)
      PROVE  Claims'
  BY <1>2 DEF ClaimCart, Base, TypeOK, Rows, Claims, Unclaimed
<1>3. ASSUME NEW o \in Orders, NEW c \in Checkouts, ClaimSend(c, o)
      PROVE  Claims'
  <2>1. state[c] = "ready" /\ Unclaimed(o) /\ c # NoCheckout
    BY <1>3 DEF ClaimSend, Payable
  <2>2. claimed'[o] = c /\ price'[o] = snapshot[c].price
    BY <1>3 DEF ClaimSend, Base, TypeOK
  <2>3. send'[o] = "queued" /\ paid[o] = <<>>
    BY <1>3, <2>1 DEF ClaimSend, Base, TypeOK, Claims
  <2>4. \A p \in Orders \ {o} : claimed'[p] = claimed[p]
                               /\ price'[p] = price[p] /\ send'[p] = send[p]
    BY <1>3 DEF ClaimSend, Base, TypeOK
  <2> QED
    BY <1>3, <2>1, <2>2, <2>3, <2>4 DEF ClaimSend, Base, Claims, Unclaimed
<1>4. ASSUME NEW o \in Orders, CheckCart(o)
      PROVE  Claims'
  BY <1>4 DEF CheckCart, Base, TypeOK, Rows, Claims, Unclaimed
<1>5. ASSUME NEW o \in Orders, PlaceOrder(o)
      PROVE  Claims'
  BY <1>5 DEF PlaceOrder, Base, TypeOK, Rows, Claims, Unclaimed
<1>6. ASSUME NEW o \in Orders, SendFails(o)
      PROVE  Claims'
  BY <1>6 DEF SendFails, Base, TypeOK, Rows, Claims, Unclaimed
<1>7. ASSUME NEW c \in Checkouts, ReadCart(c)
      PROVE  Claims'
  BY <1>7 DEF ReadCart, Base, TypeOK, Rows, Claims, Unclaimed
<1>8. ASSUME NEW c \in Checkouts, FillCart(c)
      PROVE  Claims'
  BY <1>8 DEF FillCart, Base, TypeOK, Rows, Claims, Unclaimed
<1>9. ASSUME NEW c \in Checkouts, QuoteCart(c)
      PROVE  Claims'
  BY <1>9 DEF QuoteCart, Base, TypeOK, Rows, Claims, Unclaimed
<1>10. ASSUME NEW c \in Checkouts, PreparationFails(c)
       PROVE  Claims'
  BY <1>10 DEF PreparationFails, Base, TypeOK, Rows, Claims, Unclaimed
<1>11. ASSUME NEW c \in Checkouts, SaveCart(c)
       PROVE  Claims'
  <2>1. UNCHANGED <<claimed, price, send, paid>>
    BY <1>11 DEF SaveCart
  <2>2. \A o \in Orders : ~Unclaimed(o) =>
          /\ state'[claimed[o]] = state[claimed[o]]
          /\ snapshot'[claimed[o]] = snapshot[claimed[o]]
    BY <1>11, ClaimedRowsStay
  <2> QED
    BY <2>1, <2>2 DEF Base, Claims, Unclaimed
<1>12. ASSUME NEW c \in Checkouts, FinishCart(c)
       PROVE  Claims'
  BY <1>12 DEF FinishCart, Base, TypeOK, Rows, Claims, Unclaimed
<1>13. ASSUME NEW c \in Checkouts, GrowOld(c)
       PROVE  Claims'
  BY <1>13 DEF GrowOld, Base, TypeOK, Rows, Claims, Unclaimed
<1>14. ASSUME NEW c \in Checkouts, SaveFails(c)
       PROVE  Claims'
  BY <1>14 DEF SaveFails, Base, TypeOK, Rows, Claims, Unclaimed
<1>15. ASSUME NEW s \in ShopStates, ChangeShop(s)
       PROVE  Claims'
  BY <1>15 DEF ChangeShop, Base, TypeOK, Rows, Claims, Unclaimed
<1>16. CASE Crash
  BY <1>16 DEF Crash, Base, TypeOK, Rows, Claims, Unclaimed
<1>17. CASE UNCHANGED vars
  BY <1>17 DEF vars, Base, TypeOK, Rows, Claims, Unclaimed
<1>18. ASSUME NEW c \in Checkouts, LoseFastOrder(c)
       PROVE  Claims'
  BY <1>18 DEF LoseFastOrder, Base, TypeOK, Rows, Claims, Unclaimed
<1>19. ASSUME NEW c \in Checkouts, FillLate(c)
       PROVE  Claims'
  BY <1>19 DEF FillLate, Base, TypeOK, Rows, Claims, Unclaimed
<1> QED
  BY <1>1, <1>2, <1>3, <1>4, <1>5, <1>6, <1>7, <1>8, <1>9, <1>10, <1>11,
     <1>12, <1>13, <1>14, <1>15, <1>16, <1>17, <1>18,
     <1>19 DEF Next, ShopStates

LEMMA AnswersStep ==
  Base /\ [Next]_vars => Answers'
<1> SUFFICES ASSUME Base, [Next]_vars
             PROVE  Answers'
  OBVIOUS
<1>1. ASSUME NEW o \in Orders, NEW q \in OrderLines, EditOrder(o, q)
      PROVE  Answers'
  BY <1>1 DEF EditOrder, Base, TypeOK, Rows, Answers
<1>2. ASSUME NEW o \in Orders, NEW c \in Checkouts, ClaimCart(c, o)
      PROVE  Answers'
  BY <1>2 DEF ClaimCart, Base, TypeOK, Rows, Answers
<1>3. ASSUME NEW o \in Orders, NEW c \in Checkouts, ClaimSend(c, o)
      PROVE  Answers'
  BY <1>3 DEF ClaimSend, Base, TypeOK, Rows, Answers
<1>4. ASSUME NEW o \in Orders, CheckCart(o)
      PROVE  Answers'
  BY <1>4 DEF CheckCart, Base, TypeOK, Rows, Answers
<1>5. ASSUME NEW o \in Orders, PlaceOrder(o)
      PROVE  Answers'
  BY <1>5 DEF PlaceOrder, Base, TypeOK, Rows, Answers
<1>6. ASSUME NEW o \in Orders, SendFails(o)
      PROVE  Answers'
  BY <1>6 DEF SendFails, Base, TypeOK, Rows, Answers
<1>7. ASSUME NEW c \in Checkouts, ReadCart(c)
      PROVE  Answers'
  BY <1>7 DEF ReadCart, Base, TypeOK, Rows, Answers
<1>8. ASSUME NEW c \in Checkouts, FillCart(c)
      PROVE  Answers'
  BY <1>8 DEF FillCart, Base, TypeOK, Rows, Answers
<1>9. ASSUME NEW c \in Checkouts, QuoteCart(c)
      PROVE  Answers'
  BY <1>9 DEF QuoteCart, Base, TypeOK, Rows, Answers
<1>10. ASSUME NEW c \in Checkouts, PreparationFails(c)
       PROVE  Answers'
  BY <1>10 DEF PreparationFails, Base, TypeOK, Rows, Answers
<1>11. ASSUME NEW c \in Checkouts, SaveCart(c)
       PROVE  Answers'
  BY <1>11 DEF SaveCart, Base, TypeOK, Rows, Answers
<1>12. ASSUME NEW c \in Checkouts, FinishCart(c)
       PROVE  Answers'
  BY <1>12 DEF FinishCart, Base, TypeOK, Rows, Answers
<1>13. ASSUME NEW c \in Checkouts, GrowOld(c)
       PROVE  Answers'
  BY <1>13 DEF GrowOld, Base, TypeOK, Rows, Answers
<1>14. ASSUME NEW c \in Checkouts, SaveFails(c)
       PROVE  Answers'
  BY <1>14 DEF SaveFails, Base, TypeOK, Rows, Answers
<1>15. ASSUME NEW s \in ShopStates, ChangeShop(s)
       PROVE  Answers'
  BY <1>15 DEF ChangeShop, Base, TypeOK, Rows, Answers
<1>16. CASE Crash
  BY <1>16 DEF Crash, Base, TypeOK, Rows, Answers
<1>17. CASE UNCHANGED vars
  BY <1>17 DEF vars, Base, TypeOK, Rows, Answers
<1>18. ASSUME NEW c \in Checkouts, LoseFastOrder(c)
       PROVE  Answers'
  BY <1>18 DEF LoseFastOrder, Base, TypeOK, Rows, Answers
<1>19. ASSUME NEW c \in Checkouts, FillLate(c)
       PROVE  Answers'
  BY <1>19 DEF FillLate, Base, TypeOK, Rows, Answers
<1> QED
  BY <1>1, <1>2, <1>3, <1>4, <1>5, <1>6, <1>7, <1>8, <1>9, <1>10, <1>11,
     <1>12, <1>13, <1>14, <1>15, <1>16, <1>17, <1>18,
     <1>19 DEF Next, ShopStates

-----------------------------------------------------------------------------
(* Each step keeps the mutex, and under QuietCheckout what was checked. *)
LEMMA ExclusiveStep ==
  Base /\ Exclusive /\ [Next]_vars => Exclusive'
<1> SUFFICES ASSUME Base, Exclusive, [Next]_vars
             PROVE  Exclusive'
  OBVIOUS
<1>1. ASSUME NEW o \in Orders, NEW q \in OrderLines, EditOrder(o, q)
      PROVE  Exclusive'
  BY <1>1 DEF EditOrder, Base, TypeOK, Claims, Unclaimed, Exclusive, MutexHeld
<1>2. ASSUME NEW o \in Orders, NEW c \in Checkouts, ClaimCart(c, o)
      PROVE  Exclusive'
  BY <1>2 DEF ClaimCart, Base, TypeOK, Claims, Unclaimed, Exclusive, MutexHeld
<1>3. ASSUME NEW o \in Orders, NEW c \in Checkouts, ClaimSend(c, o)
      PROVE  Exclusive'
  BY <1>3 DEF ClaimSend, Base, TypeOK, Claims, Unclaimed, Exclusive, MutexHeld
<1>4. ASSUME NEW o \in Orders, CheckCart(o)
      PROVE  Exclusive'
  BY <1>4 DEF CheckCart, Base, TypeOK, Claims, Unclaimed, Exclusive, MutexHeld
<1>5. ASSUME NEW o \in Orders, PlaceOrder(o)
      PROVE  Exclusive'
  BY <1>5 DEF PlaceOrder, Base, TypeOK, Claims, Unclaimed, Exclusive,
     MutexHeld
<1>6. ASSUME NEW o \in Orders, SendFails(o)
      PROVE  Exclusive'
  BY <1>6 DEF SendFails, Base, TypeOK, Claims, Unclaimed, Exclusive, MutexHeld
<1>7. ASSUME NEW c \in Checkouts, ReadCart(c)
      PROVE  Exclusive'
  BY <1>7 DEF ReadCart, Base, TypeOK, Claims, Unclaimed, Exclusive, MutexHeld
<1>8. ASSUME NEW c \in Checkouts, FillCart(c)
      PROVE  Exclusive'
  BY <1>8 DEF FillCart, Base, TypeOK, Claims, Unclaimed, Exclusive, MutexHeld
<1>9. ASSUME NEW c \in Checkouts, QuoteCart(c)
      PROVE  Exclusive'
  BY <1>9 DEF QuoteCart, Base, TypeOK, Claims, Unclaimed, Exclusive, MutexHeld
<1>10. ASSUME NEW c \in Checkouts, PreparationFails(c)
       PROVE  Exclusive'
  BY <1>10 DEF PreparationFails, Base, TypeOK, Claims, Unclaimed, Exclusive,
     MutexHeld
<1>11. ASSUME NEW c \in Checkouts, SaveCart(c)
       PROVE  Exclusive'
  BY <1>11 DEF SaveCart, Base, TypeOK, Claims, Unclaimed, Exclusive, MutexHeld
<1>12. ASSUME NEW c \in Checkouts, FinishCart(c)
       PROVE  Exclusive'
  BY <1>12 DEF FinishCart, Base, TypeOK, Claims, Unclaimed, Exclusive,
     MutexHeld
<1>13. ASSUME NEW c \in Checkouts, GrowOld(c)
       PROVE  Exclusive'
  BY <1>13 DEF GrowOld, Base, TypeOK, Claims, Unclaimed, Exclusive, MutexHeld
<1>14. ASSUME NEW c \in Checkouts, SaveFails(c)
       PROVE  Exclusive'
  BY <1>14 DEF SaveFails, Base, TypeOK, Claims, Unclaimed, Exclusive,
     MutexHeld
<1>15. ASSUME NEW s \in ShopStates, ChangeShop(s)
       PROVE  Exclusive'
  BY <1>15 DEF ChangeShop, Base, TypeOK, Claims, Unclaimed, Exclusive,
     MutexHeld
<1>16. CASE Crash
  BY <1>16 DEF Crash, Base, TypeOK, Claims, Unclaimed, Exclusive, MutexHeld
<1>17. CASE UNCHANGED vars
  BY <1>17 DEF vars, Base, TypeOK, Claims, Unclaimed, Exclusive, MutexHeld
<1>18. ASSUME NEW c \in Checkouts, LoseFastOrder(c)
       PROVE  Exclusive'
  BY <1>18 DEF LoseFastOrder, Base, TypeOK, Claims, Unclaimed, Exclusive,
     MutexHeld
<1>19. ASSUME NEW c \in Checkouts, FillLate(c)
       PROVE  Exclusive'
  BY <1>19 DEF FillLate, Base, TypeOK, Claims, Unclaimed, Exclusive, MutexHeld
<1> QED
  BY <1>1, <1>2, <1>3, <1>4, <1>5, <1>6, <1>7, <1>8, <1>9, <1>10, <1>11,
     <1>12, <1>13, <1>14, <1>15, <1>16, <1>17, <1>18,
     <1>19 DEF Next, ShopStates

LEMMA CheckedStep ==
  Base /\ Exclusive /\ Checked /\ QuietCheckout /\ [Next]_vars => Checked'
<1> SUFFICES ASSUME Base, Exclusive, Checked, QuietCheckout, [Next]_vars
             PROVE  Checked'
  OBVIOUS
<1>1. ASSUME NEW o \in Orders, NEW q \in OrderLines, EditOrder(o, q)
      PROVE  Checked'
  BY <1>1 DEF EditOrder, Base, TypeOK, Rows, Claims, Unclaimed, Exclusive,
     Checked, StillReviewed
<1>2. ASSUME NEW o \in Orders, NEW c \in Checkouts, ClaimCart(c, o)
      PROVE  Checked'
  BY <1>2 DEF ClaimCart, Base, TypeOK, Rows, Claims, Unclaimed, Exclusive,
     Checked, StillReviewed
<1>3. ASSUME NEW o \in Orders, NEW c \in Checkouts, ClaimSend(c, o)
      PROVE  Checked'
  BY <1>3 DEF ClaimSend, Base, TypeOK, Rows, Claims, Unclaimed, Exclusive,
     Checked, StillReviewed
<1>4. ASSUME NEW o \in Orders, CheckCart(o)
      PROVE  Checked'
  BY <1>4 DEF CheckCart, Base, TypeOK, Rows, Claims, Unclaimed, Exclusive,
     Checked, StillReviewed
<1>5. ASSUME NEW o \in Orders, PlaceOrder(o)
      PROVE  Checked'
  BY <1>5 DEF PlaceOrder, Base, TypeOK, Rows, Claims, Unclaimed, Exclusive,
     Checked, StillReviewed
<1>6. ASSUME NEW o \in Orders, SendFails(o)
      PROVE  Checked'
  BY <1>6 DEF SendFails, Base, TypeOK, Rows, Claims, Unclaimed, Exclusive,
     Checked, StillReviewed
<1>7. ASSUME NEW c \in Checkouts, ReadCart(c)
      PROVE  Checked'
  BY <1>7 DEF ReadCart, Base, TypeOK, Rows, Claims, Unclaimed, Exclusive,
     Checked, StillReviewed
<1>8. ASSUME NEW c \in Checkouts, FillCart(c)
      PROVE  Checked'
  BY <1>8 DEF FillCart, Base, TypeOK, Rows, Claims, Unclaimed, Exclusive,
     Checked, StillReviewed
<1>9. ASSUME NEW c \in Checkouts, QuoteCart(c)
      PROVE  Checked'
  BY <1>9 DEF QuoteCart, Base, TypeOK, Rows, Claims, Unclaimed, Exclusive,
     Checked, StillReviewed
<1>10. ASSUME NEW c \in Checkouts, PreparationFails(c)
       PROVE  Checked'
  BY <1>10 DEF PreparationFails, Base, TypeOK, Rows, Claims, Unclaimed,
     Exclusive, Checked, StillReviewed
<1>11. ASSUME NEW c \in Checkouts, SaveCart(c)
       PROVE  Checked'
  <2>1. \A o \in Orders : send[o] = "checked" => ~Unclaimed(o)
    BY DEF Base, Claims
  <2> QED
    BY <1>11, <2>1, ClaimedRowsStay DEF SaveCart, Checked, StillReviewed
<1>12. ASSUME NEW c \in Checkouts, FinishCart(c)
       PROVE  Checked'
  BY <1>12 DEF FinishCart, Base, TypeOK, Rows, Claims, Unclaimed, Exclusive,
     Checked, StillReviewed
<1>13. ASSUME NEW c \in Checkouts, GrowOld(c)
       PROVE  Checked'
  BY <1>13 DEF GrowOld, Base, TypeOK, Rows, Claims, Unclaimed, Exclusive,
     Checked, StillReviewed
<1>14. ASSUME NEW c \in Checkouts, SaveFails(c)
       PROVE  Checked'
  BY <1>14 DEF SaveFails, Base, TypeOK, Rows, Claims, Unclaimed, Exclusive,
     Checked, StillReviewed
<1>15. ASSUME NEW s \in ShopStates, ChangeShop(s)
       PROVE  Checked'
  BY <1>15 DEF ChangeShop, MayChange, Base, TypeOK, Rows, Claims, Unclaimed,
     Exclusive, Checked, StillReviewed
<1>16. CASE Crash
  BY <1>16 DEF Crash, Base, TypeOK, Rows, Claims, Unclaimed, Exclusive,
     Checked, StillReviewed
<1>17. CASE UNCHANGED vars
  BY <1>17 DEF vars, Base, TypeOK, Rows, Claims, Unclaimed, Exclusive,
     Checked, StillReviewed
<1>18. ASSUME NEW c \in Checkouts, LoseFastOrder(c)
       PROVE  Checked'
  BY <1>18 DEF LoseFastOrder, Base, TypeOK, Rows, Claims, Unclaimed,
     Exclusive, Checked, StillReviewed
<1>19. ASSUME NEW c \in Checkouts, FillLate(c)
       PROVE  Checked'
  BY <1>19 DEF FillLate, MayChange, Base, TypeOK, Rows, Claims, Unclaimed,
     Exclusive, Checked, StillReviewed
<1> QED
  BY <1>1, <1>2, <1>3, <1>4, <1>5, <1>6, <1>7, <1>8, <1>9, <1>10, <1>11,
     <1>12, <1>13, <1>14, <1>15, <1>16, <1>17, <1>18,
     <1>19 DEF Next, ShopStates

LEMMA ReviewedStep ==
  Base /\ Checked /\ PaidAsReviewed /\ [Next]_vars => PaidAsReviewed'
<1> SUFFICES ASSUME Base, Checked, PaidAsReviewed, [Next]_vars
             PROVE  PaidAsReviewed'
  OBVIOUS
<1>1. ASSUME NEW o \in Orders, NEW q \in OrderLines, EditOrder(o, q)
      PROVE  PaidAsReviewed'
  BY <1>1 DEF EditOrder, Base, TypeOK, Rows, Claims, Unclaimed, PaidAsReviewed
<1>2. ASSUME NEW o \in Orders, NEW c \in Checkouts, ClaimCart(c, o)
      PROVE  PaidAsReviewed'
  BY <1>2 DEF ClaimCart, Base, TypeOK, Rows, Claims, Unclaimed, PaidAsReviewed
<1>3. ASSUME NEW o \in Orders, NEW c \in Checkouts, ClaimSend(c, o)
      PROVE  PaidAsReviewed'
  BY <1>3 DEF ClaimSend, Base, TypeOK, Rows, Claims, Unclaimed, PaidAsReviewed
<1>4. ASSUME NEW o \in Orders, CheckCart(o)
      PROVE  PaidAsReviewed'
  BY <1>4 DEF CheckCart, Base, TypeOK, Rows, Claims, Unclaimed, PaidAsReviewed
<1>5. ASSUME NEW o \in Orders, PlaceOrder(o)
      PROVE  PaidAsReviewed'
  <2>1. shop = snapshot[claimed[o]]
    BY <1>5 DEF PlaceOrder, Checked, StillReviewed
  <2> QED
    BY <1>5, <2>1, FirstBooking DEF PlaceOrder, PaidAsReviewed
<1>6. ASSUME NEW o \in Orders, SendFails(o)
      PROVE  PaidAsReviewed'
  BY <1>6 DEF SendFails, Base, TypeOK, Rows, Claims, Unclaimed, PaidAsReviewed
<1>7. ASSUME NEW c \in Checkouts, ReadCart(c)
      PROVE  PaidAsReviewed'
  BY <1>7 DEF ReadCart, Base, TypeOK, Rows, Claims, Unclaimed, PaidAsReviewed
<1>8. ASSUME NEW c \in Checkouts, FillCart(c)
      PROVE  PaidAsReviewed'
  BY <1>8 DEF FillCart, Base, TypeOK, Rows, Claims, Unclaimed, PaidAsReviewed
<1>9. ASSUME NEW c \in Checkouts, QuoteCart(c)
      PROVE  PaidAsReviewed'
  BY <1>9 DEF QuoteCart, Base, TypeOK, Rows, Claims, Unclaimed, PaidAsReviewed
<1>10. ASSUME NEW c \in Checkouts, PreparationFails(c)
       PROVE  PaidAsReviewed'
  BY <1>10 DEF PreparationFails, Base, TypeOK, Rows, Claims, Unclaimed,
     PaidAsReviewed
<1>11. ASSUME NEW c \in Checkouts, SaveCart(c)
       PROVE  PaidAsReviewed'
  <2>1. \A o \in Orders : paid[o] # <<>> => ~Unclaimed(o)
    BY DEF Base, Claims
  <2> QED
    BY <1>11, <2>1, ClaimedRowsStay DEF SaveCart, PaidAsReviewed
<1>12. ASSUME NEW c \in Checkouts, FinishCart(c)
       PROVE  PaidAsReviewed'
  BY <1>12 DEF FinishCart, Base, TypeOK, Rows, Claims, Unclaimed,
     PaidAsReviewed
<1>13. ASSUME NEW c \in Checkouts, GrowOld(c)
       PROVE  PaidAsReviewed'
  BY <1>13 DEF GrowOld, Base, TypeOK, Rows, Claims, Unclaimed, PaidAsReviewed
<1>14. ASSUME NEW c \in Checkouts, SaveFails(c)
       PROVE  PaidAsReviewed'
  BY <1>14 DEF SaveFails, Base, TypeOK, Rows, Claims, Unclaimed,
     PaidAsReviewed
<1>15. ASSUME NEW s \in ShopStates, ChangeShop(s)
       PROVE  PaidAsReviewed'
  BY <1>15 DEF ChangeShop, Base, TypeOK, Rows, Claims, Unclaimed,
     PaidAsReviewed
<1>16. CASE Crash
  BY <1>16 DEF Crash, Base, TypeOK, Rows, Claims, Unclaimed, PaidAsReviewed
<1>17. CASE UNCHANGED vars
  BY <1>17 DEF vars, Base, TypeOK, Rows, Claims, Unclaimed, PaidAsReviewed
<1>18. ASSUME NEW c \in Checkouts, LoseFastOrder(c)
       PROVE  PaidAsReviewed'
  BY <1>18 DEF LoseFastOrder, Base, TypeOK, Rows, Claims, Unclaimed,
     PaidAsReviewed
<1>19. ASSUME NEW c \in Checkouts, FillLate(c)
       PROVE  PaidAsReviewed'
  BY <1>19 DEF FillLate, Base, TypeOK, Rows, Claims, Unclaimed, PaidAsReviewed
<1> QED
  BY <1>1, <1>2, <1>3, <1>4, <1>5, <1>6, <1>7, <1>8, <1>9, <1>10, <1>11,
     <1>12, <1>13, <1>14, <1>15, <1>16, <1>17, <1>18,
     <1>19 DEF Next, ShopStates

LEMMA OrderedStep ==
  Base /\ Checked /\ PaidIsOrdered /\ [Next]_vars => PaidIsOrdered'
<1> SUFFICES ASSUME Base, Checked, PaidIsOrdered, [Next]_vars
             PROVE  PaidIsOrdered'
  OBVIOUS
<1>1. ASSUME NEW o \in Orders, NEW q \in OrderLines, EditOrder(o, q)
      PROVE  PaidIsOrdered'
  BY <1>1 DEF EditOrder, Base, TypeOK, Rows, Claims, Unclaimed, PaidIsOrdered
<1>2. ASSUME NEW o \in Orders, NEW c \in Checkouts, ClaimCart(c, o)
      PROVE  PaidIsOrdered'
  BY <1>2 DEF ClaimCart, Base, TypeOK, Rows, Claims, Unclaimed, PaidIsOrdered
<1>3. ASSUME NEW o \in Orders, NEW c \in Checkouts, ClaimSend(c, o)
      PROVE  PaidIsOrdered'
  BY <1>3 DEF ClaimSend, Base, TypeOK, Rows, Claims, Unclaimed, PaidIsOrdered
<1>4. ASSUME NEW o \in Orders, CheckCart(o)
      PROVE  PaidIsOrdered'
  BY <1>4 DEF CheckCart, Base, TypeOK, Rows, Claims, Unclaimed, PaidIsOrdered
<1>5. ASSUME NEW o \in Orders, PlaceOrder(o)
      PROVE  PaidIsOrdered'
  <2>1. lines[o] = shop.lines /\ price[o] = shop.price
    BY <1>5, FirstBooking DEF PlaceOrder, Checked, StillReviewed, Base, Claims
  <2>2. \A p \in Orders : paid'[p] # <<>> =>
          lines[p] = paid'[p][1].lines /\ price[p] = paid'[p][1].price
    BY <1>5, <2>1, FirstBooking DEF PaidIsOrdered
  <2> QED
    BY <1>5, <2>2 DEF PlaceOrder, PaidIsOrdered
<1>6. ASSUME NEW o \in Orders, SendFails(o)
      PROVE  PaidIsOrdered'
  BY <1>6 DEF SendFails, Base, TypeOK, Rows, Claims, Unclaimed, PaidIsOrdered
<1>7. ASSUME NEW c \in Checkouts, ReadCart(c)
      PROVE  PaidIsOrdered'
  BY <1>7 DEF ReadCart, Base, TypeOK, Rows, Claims, Unclaimed, PaidIsOrdered
<1>8. ASSUME NEW c \in Checkouts, FillCart(c)
      PROVE  PaidIsOrdered'
  BY <1>8 DEF FillCart, Base, TypeOK, Rows, Claims, Unclaimed, PaidIsOrdered
<1>9. ASSUME NEW c \in Checkouts, QuoteCart(c)
      PROVE  PaidIsOrdered'
  BY <1>9 DEF QuoteCart, Base, TypeOK, Rows, Claims, Unclaimed, PaidIsOrdered
<1>10. ASSUME NEW c \in Checkouts, PreparationFails(c)
       PROVE  PaidIsOrdered'
  BY <1>10 DEF PreparationFails, Base, TypeOK, Rows, Claims, Unclaimed,
     PaidIsOrdered
<1>11. ASSUME NEW c \in Checkouts, SaveCart(c)
       PROVE  PaidIsOrdered'
  BY <1>11 DEF SaveCart, Base, TypeOK, Rows, Claims, Unclaimed, PaidIsOrdered
<1>12. ASSUME NEW c \in Checkouts, FinishCart(c)
       PROVE  PaidIsOrdered'
  BY <1>12 DEF FinishCart, Base, TypeOK, Rows, Claims, Unclaimed,
     PaidIsOrdered
<1>13. ASSUME NEW c \in Checkouts, GrowOld(c)
       PROVE  PaidIsOrdered'
  BY <1>13 DEF GrowOld, Base, TypeOK, Rows, Claims, Unclaimed, PaidIsOrdered
<1>14. ASSUME NEW c \in Checkouts, SaveFails(c)
       PROVE  PaidIsOrdered'
  BY <1>14 DEF SaveFails, Base, TypeOK, Rows, Claims, Unclaimed, PaidIsOrdered
<1>15. ASSUME NEW s \in ShopStates, ChangeShop(s)
       PROVE  PaidIsOrdered'
  BY <1>15 DEF ChangeShop, Base, TypeOK, Rows, Claims, Unclaimed,
     PaidIsOrdered
<1>16. CASE Crash
  BY <1>16 DEF Crash, Base, TypeOK, Rows, Claims, Unclaimed, PaidIsOrdered
<1>17. CASE UNCHANGED vars
  BY <1>17 DEF vars, Base, TypeOK, Rows, Claims, Unclaimed, PaidIsOrdered
<1>18. ASSUME NEW c \in Checkouts, LoseFastOrder(c)
       PROVE  PaidIsOrdered'
  BY <1>18 DEF LoseFastOrder, Base, TypeOK, Rows, Claims, Unclaimed,
     PaidIsOrdered
<1>19. ASSUME NEW c \in Checkouts, FillLate(c)
       PROVE  PaidIsOrdered'
  BY <1>19 DEF FillLate, Base, TypeOK, Rows, Claims, Unclaimed, PaidIsOrdered
<1> QED
  BY <1>1, <1>2, <1>3, <1>4, <1>5, <1>6, <1>7, <1>8, <1>9, <1>10, <1>11,
     <1>12, <1>13, <1>14, <1>15, <1>16, <1>17, <1>18,
     <1>19 DEF Next, ShopStates

-----------------------------------------------------------------------------
LEMMA BaseInvariant == Spec => []Base
<1>1. Base /\ [Next]_vars => Base'
  BY TypeStep, RowsStep, ClaimsStep, AnswersStep DEF Base
<1> QED
  BY <1>1, InitBase, PTL DEF Spec

(* The state has its type, whatever the shop and its users do. *)
THEOREM TypeCorrect == Spec => []TypeOK
<1>1. Base => TypeOK
  BY DEF Base
<1> QED
  BY <1>1, BaseInvariant, PTL

(* The answer to a preparation is its saved outcome, for every crash and   *)
(* every repetition.                                                       *)
THEOREM AnswersAgree == Spec => []AnswerIsOutcome
<1>1. Base => AnswerIsOutcome
  BY DEF Base, Answers, AnswerIsOutcome
<1> QED
  BY <1>1, BaseInvariant, PTL

LEMMA InvInvariant == QuietCheckout => (Spec => []Inv)
<1> SUFFICES ASSUME QuietCheckout
             PROVE  Spec => []Inv
  OBVIOUS
<1>1. Init => Inv
  BY InitBase
     DEF Init, Inv, Exclusive, Checked, PaidAsReviewed, PaidIsOrdered
<1>2. Inv /\ [Next]_vars => Inv'
  BY TypeStep, RowsStep, ClaimsStep, AnswersStep, ExclusiveStep, CheckedStep,
     ReviewedStep, OrderedStep DEF Inv, Base
<1> QED
  BY <1>1, <1>2, PTL DEF Spec

(* For any number of orders and preparations that share the cart: a        *)
(* purchase order is booked at most once and as it was reviewed, if the    *)
(* cart holds still between the last check and the paying request.         *)
THEOREM ReviewedIsPaid == QuietCheckout => (Spec => []PaidAsReviewed)
<1>1. Inv => PaidAsReviewed
  BY DEF Inv
<1> QED
  BY <1>1, InvInvariant, PTL

(* Under the same assumption the local order says what was bought.         *)
THEOREM OrderedIsPaid == QuietCheckout => (Spec => []PaidIsOrdered)
<1>1. Inv => PaidIsOrdered
  BY DEF Inv
<1> QED
  BY <1>1, InvInvariant, PTL

(* Of the steps that belong to a request only the paying one takes         *)
(* articles out of the cart.                                               *)
LEMMA CartGrows ==
  Base /\ [Next]_vars =>
    (jobs' # jobs /\ paid' = paid =>
       \A a \in Articles : shop'.lines[a] >= shop.lines[a])
<1> SUFFICES ASSUME Base, [Next]_vars, jobs' # jobs, paid' = paid,
                    NEW a \in Articles
             PROVE  shop'.lines[a] >= shop.lines[a]
  OBVIOUS
<1>0. shop.lines[a] \in Nat
  BY DEF Base, TypeOK, Carts, Lines
<1>1. CASE shop' = shop
  BY <1>0, <1>1
<1>2. ASSUME NEW o \in Orders, PlaceOrder(o) PROVE FALSE
  <2>1. paid'[o] = <<shop>> /\ paid[o] = <<>>
    BY <1>2, FirstBooking DEF PlaceOrder, Base, Claims
  <2> QED
    BY <2>1
<1>3. ASSUME NEW c \in Checkouts, FillCart(c) \/ FillLate(c)
      PROVE  shop'.lines[a] >= shop.lines[a]
  BY <1>3, ShopAddsFacts DEF FillCart, FillLate, Base
<1>4. ASSUME NEW s \in ShopStates, ChangeShop(s) PROVE FALSE
  BY <1>4 DEF ChangeShop
<1>5. \/ shop' = shop
      \/ \E o \in Orders : PlaceOrder(o)
      \/ \E c \in Checkouts : FillCart(c) \/ FillLate(c)
      \/ \E s \in ShopStates : ChangeShop(s)
  BY DEF Next, vars, ShopStates, EditOrder, ClaimCart, ClaimSend, CheckCart,
     SendFails, ReadCart, LoseFastOrder, QuoteCart, PreparationFails,
     SaveCart, FinishCart, GrowOld, SaveFails, Crash
<1> QED
  BY <1>1, <1>2, <1>3, <1>4, <1>5

(* People's articles are never deleted from the shared cart. *)
THEOREM NothingRemoved == Spec => NeverRemoved
<1>1. Base /\ [Next]_vars => [jobs' # jobs /\ paid' = paid =>
        \A a \in Articles : shop'.lines[a] >= shop.lines[a]]_vars
  BY CartGrows
<1> QED
  BY <1>1, BaseInvariant, PTL DEF Spec, NeverRemoved

-----------------------------------------------------------------------------
(* One preparation at a time is between its first and its last request, so *)
(* that the cart it saw empty is still empty when it fills it, unless      *)
(* people or an abandoned fast order were there; they leave a mark in      *)
(* disturbed.                                                              *)
Filling == {"empty", "stocked"}

CartInv ==
  /\ \A c \in Checkouts : state[c] = "none" => items[c] = Empty
  /\ \A c, d \in Checkouts : prep[c] \in Filling /\ prep[d] \in Filling => c = d
  /\ \A c \in Checkouts : prep[c] = "empty" /\ ~disturbed => shop.lines = Empty
  /\ CartNotDoubled

LEMMA CartInit == Init => CartInv
BY DEF Init, CartInv, CartNotDoubled, Filling

(* Steps that leave the cart and the rows' articles alone and begin no     *)
(* remote request keep it.                                                 *)
LEMMA CartUntouched ==
  ASSUME Base, CartInv, UNCHANGED <<items, shop, disturbed>>,
         \A c \in Checkouts : state'[c] = "none" => state[c] = "none",
         \A c \in Checkouts :
           \/ prep'[c] = prep[c]
           \/ prep'[c] \notin Filling
           \/ prep[c] = "empty" /\ prep'[c] = "stocked"
  PROVE  CartInv'
<1>1. \A c \in Checkouts : prep'[c] \in Filling => prep[c] \in Filling
  BY DEF Filling
<1>2. \A c \in Checkouts : prep'[c] = "empty" => prep[c] = "empty"
  BY DEF Filling
<1> QED
  BY <1>1, <1>2 DEF CartInv, CartNotDoubled

LEMMA CartStep ==
  Base /\ CartInv /\ [Next]_vars => CartInv'
<1> SUFFICES ASSUME Base, CartInv, [Next]_vars
             PROVE  CartInv'
  OBVIOUS
<1>0. TypeOK /\ Rows
  BY DEF Base
<1>1. ASSUME NEW o \in Orders, NEW q \in OrderLines, EditOrder(o, q)
      PROVE  CartInv'
  BY <1>1, CartUntouched DEF EditOrder
<1>2. ASSUME NEW o \in Orders, NEW c \in Checkouts, ClaimCart(c, o)
      PROVE  CartInv'
  <2>1. /\ state[c] = "none" /\ items[c] = Empty
        /\ items' = [items EXCEPT ![c] = lines[o]]
        /\ state' = [state EXCEPT ![c] = "preparing"]
        /\ prep' = [prep EXCEPT ![c] = "queued"]
        /\ UNCHANGED <<shop, disturbed>>
    BY <1>2 DEF ClaimCart, CartInv
  <2>2. \A d \in Checkouts : state'[d] = "none" => items'[d] = Empty
    BY <1>0, <2>1 DEF TypeOK, CartInv
  <2>3. \A d \in Checkouts : prep'[d] \in Filling =>
          prep[d] \in Filling /\ prep'[d] = prep[d]
    BY <1>0, <2>1 DEF TypeOK, Filling
  <2>4. CartNotDoubled'
    <3> SUFFICES ASSUME ~disturbed, shop.lines # Empty
                 PROVE  \E d \in Checkouts :
                          \A a \in Articles : shop.lines[a] <= items'[d][a]
      BY <2>1 DEF CartNotDoubled
    <3>1. PICK d \in Checkouts :
            \A a \in Articles : shop.lines[a] <= items[d][a]
      BY DEF CartInv, CartNotDoubled
    <3>2. d # c
      (* The new row had no items, and the cart is not empty. *)
      <4> SUFFICES ASSUME d = c PROVE FALSE
        OBVIOUS
      <4>1. \A a \in Articles : shop.lines[a] \in Nat /\ shop.lines[a] <= 0
        BY <1>0, <2>1, <3>1 DEF TypeOK, Carts, Lines, Empty
      <4>2. \A a \in Articles : shop.lines[a] = 0
        BY <4>1
      <4>3. shop.lines \in [Articles -> Nat]
        BY <1>0 DEF TypeOK, Carts, Lines
      <4>4. shop.lines = Empty
        BY <4>2, <4>3 DEF Empty
      <4> QED
        BY <4>4
    <3>3. items'[d] = items[d]
      BY <1>0, <2>1, <3>2 DEF TypeOK
    <3> QED
      BY <3>1, <3>3
  <2> QED
    BY <2>1, <2>2, <2>3, <2>4 DEF CartInv, Filling
<1>3. ASSUME NEW o \in Orders, NEW c \in Checkouts, ClaimSend(c, o)
      PROVE  CartInv'
  BY <1>3, CartUntouched DEF ClaimSend
<1>4. ASSUME NEW o \in Orders, CheckCart(o) \/ SendFails(o)
      PROVE  CartInv'
  BY <1>4, CartUntouched DEF CheckCart, SendFails
<1>5. ASSUME NEW o \in Orders, PlaceOrder(o)
      PROVE  CartInv'
  <2>1. shop'.lines = Empty
    BY <1>0, <1>5 DEF PlaceOrder, TypeOK, Carts
  <2>2. UNCHANGED <<items, state, prep>>
    BY <1>5 DEF PlaceOrder
  <2> QED
    BY <2>1, <2>2 DEF CartInv, CartNotDoubled
<1>6. ASSUME NEW c \in Checkouts, ReadCart(c)
      PROVE  CartInv'
  <2>1. /\ \A d \in Checkouts : prep[d] \notin Filling
        /\ UNCHANGED <<items, state, shop, disturbed>>
    BY <1>6 DEF ReadCart, MutexHeld, Filling
  <2>2. /\ \A d \in Checkouts \ {c} : prep'[d] = prep[d]
        /\ prep'[c] = "empty" => shop.lines = Empty
    BY <1>0, <1>6 DEF ReadCart, TypeOK
  <2>3. \A d \in Checkouts : prep'[d] \in Filling => d = c
    BY <2>1, <2>2
  <2> QED
    BY <2>1, <2>2, <2>3 DEF CartInv, CartNotDoubled, Filling
<1>7. ASSUME NEW c \in Checkouts, FillCart(c)
      PROVE  CartInv'
  <2>1. /\ prep[c] = "empty" /\ ShopAdds(c)
        /\ UNCHANGED <<items, state, disturbed>>
    BY <1>7 DEF FillCart
  <2>2. /\ prep'[c] # "empty"
        /\ \A d \in Checkouts \ {c} : prep'[d] = prep[d]
    BY <1>0, <1>7 DEF FillCart, TypeOK
  <2>3. \A d \in Checkouts \ {c} : prep[d] \notin Filling
    BY <2>1 DEF CartInv, Filling
  <2>4. \A d \in Checkouts : prep'[d] # "empty"
    BY <2>2, <2>3 DEF Filling
  <2>5. ~disturbed => \A a \in Articles : shop'.lines[a] <= items[c][a]
    <3> SUFFICES ASSUME ~disturbed, NEW a \in Articles
                 PROVE  shop'.lines[a] <= items[c][a]
      OBVIOUS
    <3>1. shop.lines[a] = 0
      BY <2>1 DEF CartInv, Empty
    <3>2. /\ shop'.lines[a] \in Nat
          /\ shop'.lines[a] <= shop.lines[a] + items[c][a]
      BY <1>0, <2>1, ShopAddsFacts
    <3>3. items[c][a] \in Nat
      BY <1>0 DEF TypeOK, Lines
    <3> QED
      BY <3>1, <3>2, <3>3
  <2>6. CartNotDoubled'
    BY <2>1, <2>5 DEF CartNotDoubled
  <2> QED
    BY <2>1, <2>2, <2>3, <2>4, <2>6 DEF CartInv
<1>8. ASSUME NEW c \in Checkouts,
             QuoteCart(c) \/ PreparationFails(c) \/ LoseFastOrder(c)
      PROVE  CartInv'
  BY <1>0, <1>8, CartUntouched
  DEF QuoteCart, PreparationFails, LoseFastOrder, TypeOK, Filling
<1>9. ASSUME NEW c \in Checkouts, SaveCart(c)
      PROVE  CartInv'
  BY <1>0, <1>9, CartUntouched DEF SaveCart, TypeOK, Filling
<1>10. ASSUME NEW c \in Checkouts,
              FinishCart(c) \/ GrowOld(c)
       PROVE  CartInv'
  BY <1>10, CartUntouched DEF FinishCart, GrowOld
<1>11. ASSUME NEW c \in Checkouts, SaveFails(c)
       PROVE  CartInv'
  BY <1>0, <1>11, CartUntouched DEF SaveFails, TypeOK, Filling
<1>12. ASSUME NEW s \in ShopStates, ChangeShop(s)
       PROVE  CartInv'
  <2>1. /\ UNCHANGED <<items, state, prep>>
        /\ ~disturbed' => ~disturbed /\ shop'.lines = shop.lines
    BY <1>0, <1>12 DEF ChangeShop, TypeOK
  <2> QED
    BY <2>1 DEF CartInv, CartNotDoubled
<1>13. CASE Crash
  BY <1>13, CartUntouched DEF Crash, Filling
<1>14. CASE UNCHANGED vars
  BY <1>14, CartUntouched DEF vars
<1>15. ASSUME NEW c \in Checkouts, FillLate(c)
       PROVE  CartInv'
  <2>1. /\ UNCHANGED <<items, state, prep>>
        /\ ~disturbed' => ~disturbed /\ shop'.lines = shop.lines
    BY <1>0, <1>15 DEF FillLate, TypeOK
  <2> QED
    BY <2>1 DEF CartInv, CartNotDoubled
<1> QED
  BY <1>1, <1>2, <1>3, <1>4, <1>5, <1>6, <1>7, <1>8, <1>9, <1>10, <1>11,
     <1>12, <1>13, <1>14, <1>15 DEF Next, ShopStates

(* However many preparations overlap, repeat, stop short or die, a cart    *)
(* changed by nothing but running preparations holds at most the articles  *)
(* of one order once: the checkout mutex and the reuse of an equal cart    *)
(* (adamhall_reviewed_checkout.go 29-64).                                  *)
THEOREM CartHoldsOneOrder == Spec => []CartNotDoubled
<1>1. Base /\ CartInv /\ [Next]_vars => CartInv'
  BY CartStep
<1>2. CartInv => CartNotDoubled
  BY DEF CartInv
<1> QED
  BY <1>1, <1>2, BaseInvariant, CartInit, PTL DEF Spec
=============================================================================
