------------------------------ MODULE MCWallet ------------------------------
(***************************************************************************)
(* Two fans, an artist and a manager; a duel whose three shares of 5 cents *)
(* all round up, a concert with one seat left, a seat of a competition,    *)
(* one gift, one candidate. The cfg says which of the items are on sale.   *)
(***************************************************************************)
EXTENDS Wallet, TLC

CONSTANTS fan1, fan2, artist, rival, manager, duel, concert, seat, gift, candidate

MCUsers    == {fan1, fan2, artist, rival, manager}
MCManagers == {manager}
MCOpening  == [u \in MCUsers |-> IF u \in {fan1, fan2} THEN 8 ELSE 0]

OnSale(f) == [i \in Items |-> f[i]]
MCSource  == OnSale(duel :> "duel_ticket" @@ concert :> "concert_ticket"
                      @@ seat :> "unshared")
MCPrice   == OnSale(duel :> 5 @@ concert :> 3 @@ seat :> 3)
MCArtist1 == OnSale(duel :> artist @@ concert :> artist @@ seat :> NoUser)
MCArtist2 == OnSale(duel :> rival @@ concert :> NoUser @@ seat :> NoUser)
MCManager == OnSale(duel :> manager @@ concert :> NoUser @@ seat :> NoUser)
MCLimited  == Items \cap {concert}
MCCapacity == [i \in MCLimited |-> 1]
MCGiftPrice == gift :> 2

\* The percentages of the seeded economic_config.
Pct(platform, one, two, mgr) ==
    [platform |-> platform, artist |-> one, artists |-> two, manager |-> mgr,
     winnerShare |-> 50, enabled |-> TRUE]
MCSections ==
    [vote           |-> Pct(20, 0, 0, 0),
     gift           |-> Pct(20, 0, 0, 0),
     concert_ticket |-> Pct(20, 80, 0, 0),
     duel_ticket    |-> Pct(20, 0, 70, 10)]

\* One fan can have two requests in flight, the other one.
MCLanes == fan1 :> {1, 2} @@ fan2 :> {1}
=============================================================================
