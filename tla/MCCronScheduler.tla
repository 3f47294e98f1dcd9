-------------------------- MODULE MCCronScheduler ---------------------------
(***************************************************************************)
(* A small instance of the cron runner for TLC: two replicas around        *)
(* midnight from Friday the 13th of March to Saturday the 14th.            *)
(***************************************************************************)
EXTENDS CronScheduler, TLC

CONSTANTS r1, r2

Clocks == r1 :> 0 @@ r2 :> 1

Midnight == 0 :> [minute |-> 59, hour |-> 23, dom |-> 13, month |-> 3, dow |-> 5]
         @@ 1 :> [minute |-> 0, hour |-> 0, dom |-> 14, month |-> 3, dow |-> 6]

One(n)       == [from |-> <<[number |-> n]>>, to |-> <<>>, step |-> <<>>]
Between(a, b) == [from |-> <<[number |-> a]>>, to |-> <<[number |-> b]>>, step |-> <<>>]
Named(a)     == [from |-> <<[name |-> a]>>, to |-> <<>>, step |-> <<>>]
NamedTo(a, b) == [from |-> <<[name |-> a]>>, to |-> <<[name |-> b]>>, step |-> <<>>]
EveryBy(n)   == [from |-> <<>>, to |-> <<>>, step |-> <<n>>]
FromBy(a, n) == [from |-> <<[number |-> a]>>, to |-> <<>>, step |-> <<n>>]

(* "0,59 0-23 * * sat", and "*/30,29/30 * 14 jan-mar 5", where the day of  *)
(* the week or the day of the month may match.                             *)
Jobs2 ==
  <<[id |-> "digest",
     schedule |-> [minute |-> <<One(0), One(59)>>, hour |-> <<Between(0, 23)>>, dom |-> Every,
                   month |-> Every, dow |-> <<Named("sat")>>]],
    [id |-> "sweep",
     schedule |-> [minute |-> <<EveryBy(30), FromBy(29, 30)>>, hour |-> Every, dom |-> <<One(14)>>,
                   month |-> <<NamedTo("jan", "mar")>>, dow |-> <<One(5)>>]]>>

(* What crontab(5) says of them.                                           *)
Expected == {<<"digest", 1>>, <<"sweep", 0>>, <<"sweep", 1>>}
=============================================================================
