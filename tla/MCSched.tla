------------------------------ MODULE MCSched ------------------------------
(* Instances of Sched for model checking: quanta and allotments scaled down. *)
(* With MixedQuanta and TickAllotments a process reaches level 2 in two      *)
(* ticks, stays there for one, and is boosted from it by the next.           *)
EXTENDS Sched

Quanta == <<1, 2, 2>>
Allotments == <<2, 4>>
ShortAllotments == <<1, 2>>
LongQuanta == <<2, 2, 2>>
TickAllotments == <<1, 1>>
MixedQuanta == <<1, 2, 1>>
=============================================================================
