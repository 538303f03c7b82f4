---------------------------- MODULE MCFriendDb -----------------------------
(* A small instance of FriendDb for TLC. *)
EXTENDS FriendDb

CONSTANTS t1, t2, t3, alice, bob, k1, k2

(* One pair of users whose calls meet in every way. *)
MCRequests ==
  {<<"AcceptFriend", alice, bob>>, <<"RemoveFriend", bob, alice>>,
   <<"GetUserFriendsPks", alice, alice>>}
============================================================================
