------------------------------- MODULE Lists -------------------------------
(* The linked lists of the server are sequences; elements leave anywhere.  *)
EXTENDS Naturals, Sequences

(* what is left of a list when the elements in D are unlinked *)
Without(list, D) ==
    LET left[i \in 0 .. Len(list)] ==
          IF i = 0 THEN << >>
          ELSE IF list[i] \in D THEN left[i - 1] ELSE Append(left[i - 1], list[i])
    IN left[Len(list)]

=============================================================================
