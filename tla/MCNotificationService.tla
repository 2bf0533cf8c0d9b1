------------------------ MODULE MCNotificationService ------------------------
(***************************************************************************)
(* Instances of NotificationService for TLC.                               *)
(***************************************************************************)
EXTENDS NotificationService, TLC

CONSTANTS p1, p2, n1, n2

TwoPods == {p1, p2}
OneNotif == {n1}
TwoNotifs == {n1, n2}

\* Pods and notifications are interchangeable.
PodSymmetry == Permutations(Pods)
ServiceSymmetry == Permutations(Pods) \union Permutations(Notif)

\* What clients ask for: nothing, the future, or also the past.
Immediate == {NoTime}
Soon == {NoTime, 1}
Future == {NoTime, 1, 2}
AnyTime == {NoTime, 0, 1}

NoFaults == {}
StopOnly == {"stop"}
DbOnly == {"db"}

=============================================================================
