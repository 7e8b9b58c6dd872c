--------------------------------- MODULE ShopMC ---------------------------------
(* Instances of Shop for TLC: the catalogs and carts of OrdersMC. *)
EXTENDS Shop, OrdersMC
===============================================================================
