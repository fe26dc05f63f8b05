----------------------------- MODULE AccessSeats -----------------------------
(* Access codes and school seats of one seat-capped package                  *)
(* (access_repository.go).  RedeemAccessCode and AssignSchoolSeat decide on  *)
(* what they read and write later in the same transaction; under READ        *)
(* COMMITTED only the rows they lock stand still in between, so each is two  *)
(* actions here, Begin (lock and check) and Commit (write), and every other  *)
(* command runs between them unless a lock keeps it out.                     *)
EXTENDS Naturals, FiniteSets

CONSTANTS
  AccessCodes,  \* access codes that name the package
  Contracts,    \* school entitlements to the package
  Users,
  Transactions, \* redemptions and assignments that may be in flight together
  MaxUses,      \* max_uses of every code
  Capacities,   \* seat capacities an operator may write (0: no capacity)
  Others        \* BOUND: entitlements from payments and manual grants

ASSUME SeatAssumption ==
  /\ MaxUses \in Nat \ {0} /\ Capacities \subseteq Nat /\ Others \in Nat
  /\ IsFiniteSet(AccessCodes) /\ IsFiniteSet(Contracts) /\ IsFiniteSet(Users)

VARIABLES
  accessCode,      \* commerce_access_codes: status and current_uses
  codeRedemption,  \* per code and user, the entitlement the redemption created
  seat,            \* per contract and user, the latest seat row: its own status
                   \* and that of its user entitlement
  contract,        \* status of the school entitlement
  capacity,        \* commerce_packages.seat_capacity
  other,           \* active user entitlements that came another way
  tx,              \* the transactions in flight, and by that the locks
  written          \* the capacities the package row had so far: HISTORY, and what
                   \* a statement that waited for another row may have read of it

seatVars == <<accessCode, codeRedemption, seat, contract, capacity, other, tx, written>>

-----------------------------------------------------------------------------
EntitlementStatus == {"none", "active", "revoked"}

NoTx == [kind |-> "none"]
Redeeming == [kind : {"redeem"}, code : AccessCodes, user : Users]
Assigning == [kind : {"assign"}, contract : Contracts, user : Users]

\* Row locks: FOR UPDATE OF c, pk and FOR UPDATE OF e last until the end of
\* the transaction.
CodeLocked(c) == \E t \in Transactions : tx[t] \in Redeeming /\ tx[t].code = c
PackageLocked == \E t \in Transactions : tx[t] \in Redeeming
ContractLocked(k) == \E t \in Transactions : tx[t] \in Assigning /\ tx[t].contract = k

Redeemed == {r \in AccessCodes \X Users : codeRedemption[r] = "active"}
Seats(k) == {u \in Users : seat[<<k, u>>].status = "active"}
Seated == {s \in Contracts \X Users : seat[s].access = "active"}

\* count(*) of the active user entitlements of the product, whatever their source.
Used == Cardinality(Redeemed) + Cardinality(Seated) + other

-----------------------------------------------------------------------------
(* RedeemAccessCode *)

\* FAULTY: only the code row is locked.
RedeemLocksCode(c) == ~CodeLocked(c)

RedeemLocks(c) == ~CodeLocked(c) /\ ~PackageLocked

MayRedeem(c) == accessCode[c].status = "active" /\ accessCode[c].uses < MaxUses

\* A user who has redeemed the code before gets that entitlement back and
\* nothing is written.
BeginRedeem(t, c, u) ==
  /\ tx[t] = NoTx /\ RedeemLocks(c)
  /\ codeRedemption[<<c, u>>] = "none" /\ MayRedeem(c)
  /\ capacity # 0 => Used < capacity
  /\ tx' = [tx EXCEPT ![t] = [kind |-> "redeem", code |-> c, user |-> u]]
  /\ UNCHANGED <<accessCode, codeRedemption, seat, contract, capacity, other, written>>

CommitRedeem(t) ==
  /\ tx[t] \in Redeeming
  /\ codeRedemption' = [codeRedemption EXCEPT ![<<tx[t].code, tx[t].user>>] = "active"]
  /\ accessCode' = [accessCode EXCEPT ![tx[t].code].uses = @ + 1]
  /\ tx' = [tx EXCEPT ![t] = NoTx]
  /\ UNCHANGED <<seat, contract, capacity, other, written>>

-----------------------------------------------------------------------------
(* AssignSchoolSeat *)

AssignLocks(k) == ~ContractLocked(k)

\* The package row is joined but not locked: limit is its capacity as it was
\* when the statement began to wait for the contract, and it may change again
\* before the commit.  An active seat of the user is returned as it is.
BeginAssign(t, k, u, limit) ==
  /\ tx[t] = NoTx /\ AssignLocks(k)
  /\ contract[k] = "active" /\ limit \in written \ {0}
  /\ u \notin Seats(k) /\ Cardinality(Seats(k)) < limit
  /\ tx' = [tx EXCEPT ![t] = [kind |-> "assign", contract |-> k, user |-> u]]
  /\ UNCHANGED <<accessCode, codeRedemption, seat, contract, capacity, other, written>>

CommitAssign(t) ==
  /\ tx[t] \in Assigning
  /\ seat' = [seat EXCEPT ![<<tx[t].contract, tx[t].user>>] =
                [status |-> "active", access |-> "active"]]
  /\ tx' = [tx EXCEPT ![t] = NoTx]
  /\ UNCHANGED <<accessCode, codeRedemption, contract, capacity, other, written>>

\* Either transaction fails, or its process dies, before the commit.
Rollback(t) ==
  /\ tx[t] # NoTx
  /\ tx' = [tx EXCEPT ![t] = NoTx]
  /\ UNCHANGED <<accessCode, codeRedemption, seat, contract, capacity, other, written>>

-----------------------------------------------------------------------------
(* Commands of one statement on the row they decide on. *)

\* FAULTY: the seat is given up, the access that came with it is not.
Vacated(s) == [s EXCEPT !.status = "revoked"]

Revoked(s) == [status |-> "revoked", access |-> "revoked"]

RevokeSchoolSeat(k, u) ==
  /\ u \in Seats(k)
  /\ seat' = [seat EXCEPT ![<<k, u>>] = Revoked(seat[<<k, u>>])]
  /\ UNCHANGED <<accessCode, codeRedemption, contract, capacity, other, tx, written>>

\* RevokeEntitlement on the access a redemption or a seat gave, or on the
\* school's own entitlement: it looks at nothing but the one row.
RevokeRedeemed(r) ==
  /\ r \in Redeemed
  /\ codeRedemption' = [codeRedemption EXCEPT ![r] = "revoked"]
  /\ UNCHANGED <<accessCode, seat, contract, capacity, other, tx, written>>

RevokeSeatAccess(s) ==
  /\ s \in Seated
  /\ seat' = [seat EXCEPT ![s].access = "revoked"]
  /\ UNCHANGED <<accessCode, codeRedemption, contract, capacity, other, tx, written>>

RevokeContract(k) ==
  /\ contract[k] = "active" /\ ~ContractLocked(k)
  /\ contract' = [contract EXCEPT ![k] = "revoked"]
  /\ UNCHANGED <<accessCode, codeRedemption, seat, capacity, other, tx, written>>

\* GrantEntitlement, a paid request, and their revocation: no capacity check.
OtherEntitlement(n) ==
  /\ n \in 0..Others /\ n # other
  /\ other' = n
  /\ UNCHANGED <<accessCode, codeRedemption, seat, contract, capacity, tx, written>>

UpdateAccessCodeStatus(c, status) ==
  /\ ~CodeLocked(c)
  /\ accessCode' = [accessCode EXCEPT ![c].status = status]
  /\ UNCHANGED <<codeRedemption, seat, contract, capacity, other, tx, written>>

\* UpdateProduct writes the package row, whatever has been handed out.
UpdateProduct(n) ==
  /\ ~PackageLocked
  /\ capacity' = n
  /\ written' = written \cup {n}
  /\ UNCHANGED <<accessCode, codeRedemption, seat, contract, other, tx>>

-----------------------------------------------------------------------------
SeatsInit ==
  /\ accessCode = [c \in AccessCodes |-> [status |-> "active", uses |-> 0]]
  /\ codeRedemption = [r \in AccessCodes \X Users |-> "none"]
  /\ seat = [s \in Contracts \X Users |-> [status |-> "none", access |-> "none"]]
  /\ contract = [k \in Contracts |-> "active"]
  /\ capacity \in Capacities \ {0} /\ written = {capacity}
  /\ other = 0
  /\ tx = [t \in Transactions |-> NoTx]

SeatsNext ==
  \/ \E t \in Transactions :
       \/ \E c \in AccessCodes, u \in Users : BeginRedeem(t, c, u)
       \/ \E k \in Contracts, u \in Users, limit \in Capacities : BeginAssign(t, k, u, limit)
       \/ CommitRedeem(t) \/ CommitAssign(t) \/ Rollback(t)
  \/ \E k \in Contracts, u \in Users : RevokeSchoolSeat(k, u)
  \/ \E r \in AccessCodes \X Users : RevokeRedeemed(r)
  \/ \E s \in Contracts \X Users : RevokeSeatAccess(s)
  \/ \E k \in Contracts : RevokeContract(k)
  \/ \E n \in 0..Others : OtherEntitlement(n)
  \/ \E c \in AccessCodes, status \in {"active", "paused", "archived"} :
       UpdateAccessCodeStatus(c, status)
  \/ \E n \in Capacities : UpdateProduct(n)

SeatsSpec == SeatsInit /\ [][SeatsNext]_seatVars

-----------------------------------------------------------------------------
\* Types, and no code is used more often than max_uses.
SeatsTypeOK ==
  /\ accessCode \in [AccessCodes ->
                       [status : {"active", "paused", "archived"}, uses : 0..MaxUses]]
  /\ codeRedemption \in [AccessCodes \X Users -> EntitlementStatus]
  /\ seat \in [Contracts \X Users ->
                 [status : EntitlementStatus, access : EntitlementStatus]]
  /\ contract \in [Contracts -> {"active", "revoked"}]
  /\ capacity \in written /\ written \subseteq Capacities /\ other \in 0..Others
  /\ tx \in [Transactions -> {NoTx} \cup Redeeming \cup Assigning]

\* current_uses counts the redemptions, also while several users redeem the
\* last use of a code together.
UsesAreRedemptions ==
  \A c \in AccessCodes :
    accessCode[c].uses = Cardinality({u \in Users : codeRedemption[<<c, u>>] # "none"})

\* Unless the operator lifted the limit, codes never hand out more access than
\* the largest capacity the package had: redemptions of different codes do not
\* take the same last place.
RedeemedWithinCapacity ==
  0 \notin written => \E n \in written : Cardinality(Redeemed) <= n

\* A school never seats more users than the largest capacity the package had,
\* whatever seats are assigned, revoked and assigned again at the same time.
SeatsWithinCapacity ==
  \A k \in Contracts : \E n \in written : Cardinality(Seats(k)) <= n

\* No place is given away twice: a code is used at most max_uses times, and neither
\* redemptions of several codes nor seats exceed the capacity of their package.
WithinCapacity ==
  /\ \A c \in AccessCodes : accessCode[c].uses <= MaxUses
  /\ RedeemedWithinCapacity /\ SeatsWithinCapacity

\* Access that a seat gave never outlives the seat.
SeatEndsAccess ==
  \A s \in Seated : seat[s].status = "active"

\* Rows written by different commands agree: the counter of a code with its
\* redemptions, a seat with the entitlement it stands for.
RowsAgree == SeatsTypeOK /\ UsesAreRedemptions /\ SeatEndsAccess

=============================================================================
