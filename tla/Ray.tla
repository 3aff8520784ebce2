--------------------------------- MODULE Ray ---------------------------------
(***************************************************************************)
(* The two tests of mlm that the bounding volume hierarchy asks of a ray:  *)
(* whether it enters a bound and whether it hits a triangle.  Coordinates  *)
(* are small integers and times are whole numbers of 1/Unit, so that both  *)
(* compute exactly; what f32 adds is kept: a zero has a sign, a quotient   *)
(* may be infinite, and zero times infinity is not a number, which         *)
(* compares less to nothing.  epsilon is less than any fraction here.      *)
(***************************************************************************)
EXTENDS Integers, Sequences, FiniteSetsExt

CONSTANTS Rays,       \* records of an origin o and a direction d
          Triangles,  \* sequences of three points
          Limits,     \* values of tMax and rtMax
          NaN, NegZero, Infinity,
          Unit,       \* a multiple of all components of directions
          Horizon     \* in halves of a time: after it no ray is in a bound

VARIABLES ray, triangle, limit,
          asked,  \* have both tests returned?
          yes     \* those that returned true

vars == <<ray, triangle, limit, asked, yes>>

Axes == 1 .. 3

Init ==
  /\ ray \in Rays /\ triangle \in Triangles /\ limit \in Limits
  /\ asked = FALSE /\ yes = {}
-----------------------------------------------------------------------------
(* Arithmetic of f32 *)

Value(c) == IF c = NegZero THEN 0 ELSE c

Less(a, b) == NaN \notin {a, b} /\ a < b

\* std::max and std::min, which return their first argument if it does not compare.
Larger(a, b) == IF Less(a, b) THEN b ELSE a
Smaller(a, b) == IF Less(b, a) THEN b ELSE a

Product(x, inverse) ==
  CASE inverse \notin {Infinity, -Infinity} -> x * inverse
    [] x = 0 -> NaN
    [] OTHER -> IF (x > 0) = (inverse > 0) THEN Infinity ELSE -Infinity
-----------------------------------------------------------------------------
(* rayBoundIntersection *)

\* Of the bound that was made to include the points of the triangle.
Low(k) == Min({triangle[n][k] : n \in Axes})
High(k) == Max({triangle[n][k] : n \in Axes})

\* What intersect prepares for all nodes.
dirIsNeg(k) == Value(ray.d[k]) < 0

invD(k) ==
  CASE ray.d[k] = NegZero -> -Infinity
    [] ray.d[k] = 0 -> Infinity
    [] dirIsNeg(k) -> -(Unit \div (-ray.d[k]))
    [] OTHER -> Unit \div ray.d[k]

\* When the ray enters and leaves the bound along one axis.
Slab(k) ==
  LET at(x) == Product(x - ray.o[k], invD(k))
  IN  IF dirIsNeg(k) THEN <<at(High(k)), at(Low(k))>> ELSE <<at(Low(k)), at(High(k))>>

Apart(s, slab) == Less(slab[2], s[1]) \/ Less(s[2], slab[1])

Narrowed(s, slab) == <<Larger(slab[1], s[1]), Smaller(slab[2], s[2])>>

rayBoundIntersection ==
  LET xy == Narrowed(Slab(1), Slab(2))
      xyz == Narrowed(xy, Slab(3))
  IN  /\ ~Apart(Slab(1), Slab(2)) /\ ~Apart(xy, Slab(3))
      /\ Less(xyz[1], limit) /\ Less(0, xyz[2])
-----------------------------------------------------------------------------
(* rayTriIntersection *)

Minus(a, b) == [k \in Axes |-> a[k] - b[k]]

dot(a, b) == a[1] * b[1] + a[2] * b[2] + a[3] * b[3]

cross(a, b) ==
  <<a[2] * b[3] - a[3] * b[2], a[3] * b[1] - a[1] * b[3], a[1] * b[2] - a[2] * b[1]>>

\* u, v and t are multiplied by det, which is positive: the triangle faces the ray.
rayTriIntersection ==
  LET d == [k \in Axes |-> Value(ray.d[k])]
      e1 == Minus(triangle[2], triangle[1])
      e2 == Minus(triangle[3], triangle[1])
      s == Minus(ray.o, triangle[1])
      det == dot(e1, cross(d, e2))
      u == dot(s, cross(d, e2))
      v == dot(d, cross(s, e1))
      t == Unit * dot(e2, cross(s, e1))
  IN  /\ dot(d, cross(e1, e2)) <= 0 /\ det # 0
      /\ u >= 0 /\ u <= det /\ v >= 0 /\ u + v <= det
      /\ t > 0 /\ t < limit * det

Ask ==
  /\ ~asked /\ asked' = TRUE
  /\ yes' = {test \in {"bound", "triangle"} :
               IF test = "bound" THEN rayBoundIntersection ELSE rayTriIntersection}
  /\ UNCHANGED <<ray, triangle, limit>>

Done == asked /\ UNCHANGED vars

Next == Ask \/ Done

Spec == Init /\ [][Next]_vars
-----------------------------------------------------------------------------
\* At some time before the limit the ray is in the bound.
Reaches ==
  \E t \in 1 .. Horizon :
    /\ t < 2 * limit
    /\ \A k \in Axes :
         LET x == 2 * Unit * ray.o[k] + t * Value(ray.d[k])
         IN  2 * Unit * Low(k) <= x /\ x <= 2 * Unit * High(k)

\* The ray stays in the plane of a face.
AlongFace(k) == Value(ray.d[k]) = 0 /\ ray.o[k] \in {Low(k), High(k)}

\* A ray that hits a triangle is in its bound before that, and the test of the bound
\* finds it, so that intersect may skip what it does not find; unless a component
\* of the direction is a negative zero, or the ray stays in the plane of a z face.  A
\* bound that is not reached is reported only for rays in the plane of an x or y face.
BoundExact ==
  asked =>
    /\ "triangle" \in yes => Reaches
    /\ (\A k \in Axes : ray.d[k] # NegZero) =>
         /\ Reaches /\ ~AlongFace(3) => "bound" \in yes
         /\ "bound" \in yes => Reaches \/ AlongFace(1) \/ AlongFace(2)
=============================================================================
