-------------------------- MODULE DynamicDnsProofs --------------------------
(***************************************************************************)
(* Theorems about DynamicDns: for any addresses and any number of changes, *)
(* a check writes only an address that was public while it ran.            *)
(***************************************************************************)
EXTENDS DynamicDns, TLAPS

\* The history of a running check holds the address that is public now and
\* the one that get_public_ip has read: an address that is replaced after it was
\* read is still one of the check's own time.
Fresh ==
  /\ pc # "sleep" => public \in during
  /\ pc \in {"resolve", "compare", "notify", "update"} => public_ip \in during

CheckInv == TypeOK /\ Fresh

\* Init establishes CheckInv and every step keeps it.  The steps of the world
\* change neither the strings of the check nor shrink the history; of the check,
\* only get_public_ip sets public_ip, to the address that is public just then.
LEMMA CheckInvariant == Spec => []CheckInv
<1> USE DnsAssumption DEF CheckInv, TypeOK, Fresh
<1>1. Init => CheckInv
  BY DEF Init
<1>2. CheckInv /\ [Next]_vars => CheckInv'
  <2> SUFFICES ASSUME CheckInv, [Next]_vars
               PROVE  CheckInv'
    OBVIOUS
  <2>1. ASSUME NEW a \in Addrs, ChangeAddress(a)
        PROVE  CheckInv'
    BY <2>1 DEF ChangeAddress, check
  <2>2. ASSUME NEW a \in Addrs, ArriveLate(a)
        PROVE  CheckInv'
    BY <2>2 DEF ArriveLate, check
  <2>3. CASE Expire
    BY <2>3 DEF Expire, check
  <2>4. CASE OthersResolve
    BY <2>4 DEF OthersResolve, check, Answer, Visible
  <2>5. CASE Begin
    BY <2>5 DEF Begin
  <2>6. CASE GetPublicIp
    BY <2>6 DEF GetPublicIp, world
  <2>7. CASE GetPublicIpFails
    BY <2>7 DEF GetPublicIpFails, Return, world
  <2>8. CASE Resolve
    BY <2>8 DEF Resolve, Answer, Visible
  <2>9. CASE ResolveFallback
    BY <2>9 DEF ResolveFallback, world
  <2>10. CASE Differ
    BY <2>10 DEF Differ, world
  <2>11. CASE UpToDate
    BY <2>11 DEF UpToDate, Return, world
  <2>12. CASE Notify
    BY <2>12 DEF Notify, world
  <2>13. CASE Update
    BY <2>13 DEF Update, Return
  <2>14. CASE UpdateFails
    BY <2>14 DEF UpdateFails, Return
  <2>15. CASE UNCHANGED vars
    BY <2>15 DEF vars, world, check
  <2>16. QED
    BY <2>1, <2>2, <2>3, <2>4, <2>5, <2>6, <2>7, <2>8, <2>9, <2>10, <2>11,
       <2>12, <2>13, <2>14, <2>15 DEF Next, Check
<1>3. QED
  BY <1>1, <1>2, PTL DEF Spec

\* The strings of run_ddns_check agree with its place (lines 392-416): no step
\* after get_public_ip has an empty address, and only a difference is acted on.
THEOREM TypeCorrect == Spec => []TypeOK
  BY CheckInvariant, PTL DEF CheckInv

\* Whatever the resolver, its caches and late updates do, update_cloudflare_dns
\* writes an address that was public while its check ran (lines 392-413).
THEOREM FreshWrites == Spec => WritesFreshAddress
<1>1. CheckInv /\ [Next]_vars
        => [pc = "update" /\ pc' = "sleep" => record' \in {record} \cup during]_vars
  <2> SUFFICES ASSUME CheckInv, Next, pc = "update", pc' = "sleep"
               PROVE  record' \in {record} \cup during
    OBVIOUS
  <2>1. CASE \E a \in Addrs : ChangeAddress(a) \/ ArriveLate(a)
    BY <2>1 DEF ChangeAddress, ArriveLate, check
  <2>2. CASE Expire \/ OthersResolve
    BY <2>2 DEF Expire, OthersResolve, check
  <2>3. CASE Update
    BY <2>3 DEF Update, CheckInv, Fresh
  <2>4. CASE UpdateFails
    BY <2>4 DEF UpdateFails
  <2>5. QED
    BY <2>1, <2>2, <2>3, <2>4
       DEF Next, Check, Begin, GetPublicIp, GetPublicIpFails, Resolve,
           ResolveFallback, Differ, UpToDate, Notify
<1>2. QED
  BY <1>1, CheckInvariant, PTL DEF Spec, WritesFreshAddress

-----------------------------------------------------------------------------
\* The record is right and nothing is under way that could make it wrong: no
\* older update may still arrive, and the running check has not read an older
\* address.
Settled == record = public /\ late \subseteq {public} /\ public_ip \in {NoAddr, public}

\* The safety half of Converges, for any run: while the public address stays
\* what it is, no resolver, cache, failing call or repeated update takes a
\* record that is settled away from it (dynamic-dns.cpp:312-352, 354-417).
THEOREM StaysRight == Spec => [][Settled /\ public' = public => Settled']_vars
<1>1. CheckInv /\ [Next]_vars => [Settled /\ public' = public => Settled']_vars
  <2> SUFFICES ASSUME CheckInv, Next, Settled, public' = public
               PROVE  Settled'
    OBVIOUS
  <2> USE DEF Settled
  <2>1. ASSUME NEW a \in Addrs, ChangeAddress(a) \/ ArriveLate(a) PROVE Settled'
    BY <2>1 DEF ChangeAddress, ArriveLate, check
  <2>2. CASE Expire \/ OthersResolve
    BY <2>2 DEF Expire, OthersResolve, check
  <2>3. CASE Begin \/ GetPublicIp \/ GetPublicIpFails \/ Resolve \/ ResolveFallback
    BY <2>3 DEF Begin, GetPublicIp, GetPublicIpFails, Resolve, ResolveFallback, Return, world
  <2>4. CASE Differ \/ UpToDate \/ Notify
    BY <2>4 DEF Differ, UpToDate, Notify, Return, world
  <2>5. CASE Update \/ UpdateFails
    <3>1. public_ip = public
      BY <2>5, DnsAssumption DEF Update, UpdateFails, CheckInv, TypeOK
    <3> QED BY <2>5, <3>1 DEF Update, UpdateFails, Return
  <2> QED BY <2>1, <2>2, <2>3, <2>4, <2>5 DEF Next, Check
<1> QED BY <1>1, CheckInvariant, PTL DEF Spec
=============================================================================
