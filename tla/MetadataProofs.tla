--------------------------- MODULE MetadataProofs ---------------------------

(***************************************************************************)
(* Theorems about Metadata, for every value of its constants: what the     *)
(* table of contents says of a member is the last word of the records that *)
(* hold for it, the listing shows the members asked for with the date and  *)
(* the minute their time falls in, and no number leaves its width.         *)
(***************************************************************************)
EXTENDS Metadata, TLAPS, WellFoundedInduction

-----------------------------------------------------------------------------

(* Tools.  A set of numbers that holds 0 and the successor of each of its
   members below n is all of 0 .. n; a non-empty set of numbers up to n has a
   least and a greatest member; a function can be defined by recursion. *)

LEMMA UpTo ==
    ASSUME NEW n \in Nat, NEW T, 0 \in T, \A i \in 1 .. n : i - 1 \in T => i \in T
    PROVE  0 .. n \subseteq T
<1> DEFINE U == {i \in 0 .. n : i \notin T}
<1>1. SUFFICES ASSUME U # {} PROVE FALSE
    OBVIOUS
<1>2. U \subseteq Nat
    OBVIOUS
<1> HIDE DEF U
<1>3. PICK x \in U : \A y \in U : ~(<<y, x>> \in OpToRel(<, Nat))
    BY <1>1, <1>2, WFMin, NatLessThanWellFounded, Zenon
<1>4. x \in 0 .. n /\ x \notin T
    BY <1>3 DEF U
<1>5. x # 0
    BY <1>4
<1>6. x - 1 \in 0 .. n /\ x - 1 \in Nat /\ x \in Nat /\ x - 1 < x /\ x \in 1 .. n
    BY <1>4, <1>5
<1>7. x - 1 \notin U
    BY <1>3, <1>6 DEF OpToRel
<1> QED
    BY <1>4, <1>6, <1>7 DEF U

LEMMA LeastOf ==
    ASSUME NEW S \in SUBSET Nat, S # {}
    PROVE  Min(S) \in S /\ \A y \in S : Min(S) <= y
<1>1. PICK x \in S : \A y \in S : ~(<<y, x>> \in OpToRel(<, Nat))
    BY WFMin, NatLessThanWellFounded, Zenon
<1>2. \A y \in S : x =< y
    <2> SUFFICES ASSUME NEW y \in S PROVE x =< y
        OBVIOUS
    <2>1. x \in Nat /\ y \in Nat
        OBVIOUS
    <2>2. ~(y < x)
        BY <1>1, <2>1 DEF OpToRel
    <2> QED
        BY <2>1, <2>2
<1> QED
    BY <1>2 DEF Min

LEMMA GreatestOf ==
    ASSUME NEW n \in Nat, NEW S \in SUBSET (0 .. n), S # {}
    PROVE  Max(S) \in S /\ \A y \in S : y <= Max(S)
<1> DEFINE T == {m \in 0 .. n : \A y \in S : y <= m}
<1>1. n \in T /\ T \subseteq Nat
    OBVIOUS
<1> DEFINE m == Min(T)
<1>2. m \in T /\ \A x \in T : m <= x
    BY <1>1, LeastOf
<1> HIDE DEF m
<1>3. m \in S
    <2> SUFFICES ASSUME m \notin S PROVE FALSE
        OBVIOUS
    <2>1. m \in 0 .. n /\ \A y \in S : y < m
        BY <1>2
    <2>2. PICK y \in S : TRUE
        OBVIOUS
    <2>3. m # 0
        BY <2>1, <2>2
    <2>4. m - 1 \in T /\ ~(m <= m - 1)
        BY <2>1, <2>3
    <2> QED
        BY <1>2, <2>4
<1>4. \A y \in S : m >= y
    BY <1>2, <1>3
<1> QED
    BY <1>3, <1>4 DEF Max

LEMMA GreatestIs ==
    ASSUME NEW n \in Nat, NEW S \in SUBSET (0 .. n), n \in S
    PROVE  Max(S) = n
<1> DEFINE m == Max(S)
<1>1. m \in S /\ \A y \in S : y <= m
    BY GreatestOf
<1> HIDE DEF m
<1>2. m = n
    BY <1>1
<1> QED
    BY <1>2 DEF m

Follows(g, a, R, n) == g[0] = a /\ \A i \in 1 .. n : g[i] = R[i][g[i - 1]]

LEMMA Recursion ==
    ASSUME NEW n \in Nat, NEW S, NEW a \in S, NEW R \in [1 .. n -> [S -> S]]
    PROVE  \E g \in [0 .. n -> S] : Follows(g, a, R, n)
<1> USE DEF Follows
<1> DEFINE Goes(g, m) == g \in [0 .. m -> S] /\ Follows(g, a, R, m)
           T == {m \in 0 .. n : \E g : Goes(g, m)}
<1>1. 0 \in T
    <2> DEFINE g == [i \in 0 .. 0 |-> a]
    <2>1. Goes(g, 0)
        OBVIOUS
    <2> HIDE DEF Goes, g
    <2>2. \E f : Goes(f, 0)
        BY <2>1
    <2> QED
        BY <2>2
<1>2. ASSUME NEW m \in 1 .. n, m - 1 \in T PROVE m \in T
    <2>1. PICK g : Goes(g, m - 1)
        BY <1>2
    <2> DEFINE h == [i \in 0 .. m |-> IF i = m THEN R[m][g[m - 1]] ELSE g[i]]
    <2>2. g[m - 1] \in S
        BY <2>1
    <2>3. R[m][g[m - 1]] \in S
        BY <2>2
    <2>4. h \in [0 .. m -> S]
        <3>1. \A i \in 0 .. m : i # m => i \in 0 .. m - 1
            OBVIOUS
        <3> QED
            BY <2>1, <2>3, <3>1
    <2>5. h[0] = a
        BY <2>1
    <2>6. ASSUME NEW i \in 1 .. m PROVE h[i] = R[i][h[i - 1]]
        <3>1. i \in 0 .. m /\ i - 1 \in 0 .. m /\ i - 1 # m
            OBVIOUS
        <3>2. h[i - 1] = g[i - 1]
            BY <3>1
        <3>3. CASE i = m
            BY <3>1, <3>2, <3>3
        <3>4. CASE i # m
            <4>1. i \in 1 .. m - 1
                BY <3>4
            <4> QED
                BY <2>1, <3>1, <3>2, <3>4, <4>1
        <3> QED
            BY <3>3, <3>4
    <2>7. Goes(h, m)
        BY <2>4, <2>5, <2>6
    <2> HIDE DEF Goes, h
    <2>8. \E f : Goes(f, m)
        BY <2>7
    <2> QED
        BY <2>8
<1> HIDE DEF T
<1>3. n \in T
    <2>1. 0 .. n \subseteq T
        BY <1>1, <1>2, UpTo
    <2> QED
        BY <2>1
<1> QED
    BY <1>3 DEF T
-----------------------------------------------------------------------------

(* PAX records. *)

IsMapping(records) == records = [k \in DOMAIN records |-> records[k]]

(* The loop of update_pax_records, turn by turn. *)
LEMMA UpdateTurns ==
    ASSUME NEW records, IsMapping(records), NEW V, NEW updates \in Seq(V)
    PROVE  \E after :
              /\ after[0] = records
              /\ \A i \in 1 .. Len(updates) :
                    after[i] = UpdatePaxRecord(after[i - 1], updates[i])
              /\ UpdatePaxRecords(records, updates) = after[Len(updates)]
<1> DEFINE n == Len(updates)
           keys == DOMAIN records \cup {updates[i][1] : i \in 1 .. n}
           values == {records[k] : k \in DOMAIN records}
                     \cup {updates[i][2] : i \in 1 .. n}
           S == UNION {[D -> values] : D \in SUBSET keys}
           R == [i \in 1 .. n |-> [r \in S |-> UpdatePaxRecord(r, updates[i])]]
           IsAfter(f) == f = [i \in 0 .. n |-> IF i = 0 THEN records
                                 ELSE UpdatePaxRecord(f[i - 1], updates[i])]
           after == CHOOSE f : IsAfter(f)
<1>1. n \in Nat
    OBVIOUS
<1>2. records \in S
    <2>1. records \in [DOMAIN records -> values]
        BY DEF IsMapping
    <2> QED
        BY <2>1
<1>3. ASSUME NEW i \in 1 .. n, NEW r \in S
      PROVE  UpdatePaxRecord(r, updates[i]) \in S
    <2>1. PICK D \in SUBSET keys : r \in [D -> values]
        OBVIOUS
    <2>2. updates[i][1] \in keys /\ updates[i][2] \in values
        OBVIOUS
    <2> HIDE DEF keys, values
    <2>3. DOMAIN r = D /\ \A k \in D : r[k] \in values
        BY <2>1
    <2>4. CASE updates[i][2] = Empty
        <3>1. UpdatePaxRecord(r, updates[i]) \in [D \ {updates[i][1]} -> values]
            BY <2>3, <2>4 DEF UpdatePaxRecord
        <3> QED
            BY <2>1, <3>1
    <2>5. CASE updates[i][2] # Empty
        <3>1. UpdatePaxRecord(r, updates[i]) \in [D \cup {updates[i][1]} -> values]
            BY <2>2, <2>3, <2>5 DEF UpdatePaxRecord
        <3>2. D \cup {updates[i][1]} \in SUBSET keys
            BY <2>1, <2>2
        <3> QED
            BY <3>1, <3>2
    <2> QED
        BY <2>4, <2>5
<1> HIDE DEF n, S
<1>4. R \in [1 .. n -> [S -> S]]
    BY <1>3
<1>5. PICK g \in [0 .. n -> S] : Follows(g, records, R, n)
    <2> HIDE DEF R
    <2> QED
        BY <1>1, <1>2, <1>4, Recursion
<1>6. ASSUME NEW i \in 1 .. n
      PROVE  g[i] = UpdatePaxRecord(g[i - 1], updates[i])
    <2>1. i - 1 \in 0 .. n
        BY <1>1
    <2>2. g[i - 1] \in S
        BY <2>1
    <2> QED
        BY <1>5, <2>2 DEF Follows
<1>7. IsAfter(g)
    <2>1. \A i \in 0 .. n : i # 0 => i \in 1 .. n
        BY <1>1
    <2> QED
        BY <1>5, <1>6, <2>1 DEF Follows
<1>8. IsAfter(after)
    BY <1>7
<1>9. UpdatePaxRecords(records, updates) = after[n]
    BY DEF UpdatePaxRecords, n
<1> HIDE DEF after
<1>10. after[0] = records /\ \A i \in 1 .. n : after[i] = UpdatePaxRecord(after[i - 1], updates[i])
    <2>1. 0 \in 0 .. n /\ \A i \in 1 .. n : i \in 0 .. n /\ i # 0
        BY <1>1
    <2> QED
        BY <1>8, <2>1
<1> QED
    BY <1>9, <1>10 DEF n

(* What a value says: nothing if it is empty. *)
Meant(value) == {value} \ {Empty}

LEMMA UpdateSays ==
    ASSUME NEW records, IsMapping(records), NEW update, NEW key,
           NEW result, result = UpdatePaxRecord(records, update)
    PROVE  /\ IsMapping(result)
           /\ update[1] = key => Said(result, key) = Meant(update[2])
           /\ update[1] # key => Said(result, key) = Said(records, key)
<1> USE DEF Meant
<1>1. CASE update[2] = Empty
    <2>1. result = [k \in DOMAIN records \ {update[1]} |-> records[k]]
        BY <1>1 DEF UpdatePaxRecord
    <2>2. IsMapping(result)
        BY <2>1 DEF IsMapping
    <2>3. CASE update[1] = key
        <3>1. key \notin DOMAIN result /\ {update[2]} \ {Empty} = {}
            BY <1>1, <2>1, <2>3
        <3> QED
            BY <2>2, <2>3, <3>1 DEF Said, None
    <2>4. CASE update[1] # key
        <3>1. /\ key \in DOMAIN result <=> key \in DOMAIN records
              /\ key \in DOMAIN result => result[key] = records[key]
            BY <2>1, <2>4
        <3> QED
            BY <2>2, <2>4, <3>1 DEF Said
    <2> QED
        BY <2>2, <2>3, <2>4
<1>2. CASE update[2] # Empty
    <2>1. result = [k \in DOMAIN records \cup {update[1]} |->
                       IF k = update[1] THEN update[2] ELSE records[k]]
        BY <1>2 DEF UpdatePaxRecord
    <2>2. IsMapping(result)
        BY <2>1 DEF IsMapping
    <2>3. CASE update[1] = key
        <3>1. key \in DOMAIN result /\ result[key] = update[2]
            BY <2>1, <2>3
        <3>2. {update[2]} \ {Empty} = {update[2]}
            BY <1>2
        <3> QED
            BY <2>2, <2>3, <3>1, <3>2 DEF Said, Some
    <2>4. CASE update[1] # key
        <3>1. /\ key \in DOMAIN result <=> key \in DOMAIN records
              /\ key \in DOMAIN result => result[key] = records[key]
            BY <2>1, <2>4
        <3> QED
            BY <2>2, <2>4, <3>1 DEF Said
    <2> QED
        BY <2>2, <2>3, <2>4
<1> QED
    BY <1>1, <1>2

(* After a series of updates a key has the value of the last of them that is
   about it, none if that is empty, and what it had if there is no such one. *)
LEMMA LastUpdateCounts ==
    ASSUME NEW records, IsMapping(records), NEW V, NEW updates \in Seq(V),
           NEW result, result = UpdatePaxRecords(records, updates)
    PROVE  /\ IsMapping(result)
           /\ \A key : Said(result, key) =
                 IF Told(updates, key) = {} THEN Said(records, key)
                 ELSE Meant(updates[Max(Told(updates, key))][2])
<1> DEFINE n == Len(updates)
           told(i, key) == {j \in 1 .. i : updates[j][1] = key}
<1>1. n \in Nat /\ DOMAIN updates = 1 .. n
    OBVIOUS
<1>2. PICK after :
         /\ after[0] = records
         /\ \A i \in 1 .. n : after[i] = UpdatePaxRecord(after[i - 1], updates[i])
         /\ UpdatePaxRecords(records, updates) = after[n]
    BY UpdateTurns
<1> DEFINE Holds(i) ==
              /\ IsMapping(after[i])
              /\ \A key : Said(after[i], key) =
                    IF told(i, key) = {} THEN Said(records, key)
                    ELSE Meant(updates[Max(told(i, key))][2])
           T == {i \in 0 .. n : Holds(i)}
<1>3. 0 \in T
    <2>1. \A key : told(0, key) = {}
        OBVIOUS
    <2> QED
        BY <1>1, <1>2, <2>1
<1>4. ASSUME NEW i \in 1 .. n, i - 1 \in T PROVE i \in T
    <2>1. Holds(i - 1) /\ i \in 0 .. n
        <3> HIDE DEF Holds
        <3> QED
            BY <1>4
    <2>2. after[i] = UpdatePaxRecord(after[i - 1], updates[i])
        BY <1>2
    <2>3. IsMapping(after[i])
        BY <2>1, <2>2, UpdateSays, Zenon
    <2>4. ASSUME NEW key
          PROVE  Said(after[i], key) =
                    IF told(i, key) = {} THEN Said(records, key)
                    ELSE Meant(updates[Max(told(i, key))][2])
        <3>1. /\ updates[i][1] = key => Said(after[i], key) = Meant(updates[i][2])
              /\ updates[i][1] # key => Said(after[i], key) = Said(after[i - 1], key)
            <4>1. IsMapping(after[i - 1])
                BY <2>1
            <4>2. updates[i][1] = key => Said(after[i], key) = Meant(updates[i][2])
                BY <2>2, <4>1, UpdateSays
            <4>3. updates[i][1] # key => Said(after[i], key) = Said(after[i - 1], key)
                BY <2>2, <4>1, UpdateSays
            <4> QED
                BY <4>2, <4>3
        <3>2. CASE updates[i][1] = key
            <4>1. i \in told(i, key) /\ told(i, key) \subseteq 0 .. i /\ i \in Nat
                BY <3>2
            <4>2. Max(told(i, key)) = i
                <5> HIDE DEF told
                <5> QED
                    BY <4>1, GreatestIs
            <4> HIDE DEF told
            <4> QED
                BY <3>1, <3>2, <4>1, <4>2
        <3>3. CASE updates[i][1] # key
            <4>1. told(i, key) = told(i - 1, key)
                BY <3>3
            <4> HIDE DEF told
            <4> QED
                BY <2>1, <3>1, <3>3, <4>1
        <3> QED
            BY <3>2, <3>3
    <2>5. Holds(i)
        BY <2>3, <2>4
    <2> HIDE DEF Holds
    <2> QED
        BY <2>1, <2>5
<1> HIDE DEF T
<1>5. n \in T
    <2>1. 0 .. n \subseteq T
        BY <1>1, <1>3, <1>4, UpTo
    <2> QED
        BY <1>1, <2>1
<1>6. Holds(n)
    BY <1>5 DEF T
<1>7. \A key : told(n, key) = Told(updates, key)
    BY <1>1 DEF Told
<1> HIDE DEF told, n
<1> QED
    BY <1>2, <1>6, <1>7

(* Every key has the last word of these headers. *)
AreWordsOf(records, H) ==
    IsMapping(records) /\ \A key : Said(records, key) = Word(H, key)

(* When a header's records are added to what the headers of H say, behind all of
   which it stands, the last word is that of all these headers. *)
LEMMA WordGrows ==
    ASSUME NEW n \in Nat, NEW H \in SUBSET (0 .. n - 1),
           NEW V, stream[n].records \in Seq(V),
           NEW records, AreWordsOf(records, H),
           NEW result, result = UpdatePaxRecords(records, stream[n].records)
    PROVE  AreWordsOf(result, H \cup {n})
<1> USE DEF AreWordsOf
<1> DEFINE updates == stream[n].records
           speak(G, key) == {i \in G : Told(stream[i].records, key) # {}}
<1>1. /\ IsMapping(result)
      /\ \A key : Said(result, key) =
            IF Told(updates, key) = {} THEN Said(records, key)
            ELSE Meant(updates[Max(Told(updates, key))][2])
    BY LastUpdateCounts
<1>2. ASSUME NEW key, NEW G
      PROVE  Word(G, key) =
                IF speak(G, key) = {} THEN None
                ELSE LET last == stream[Max(speak(G, key))].records IN
                     Meant(last[Max(Told(last, key))][2])
    BY DEF Word, Meant
<1>3. ASSUME NEW key PROVE Said(result, key) = Word(H \cup {n}, key)
    <2>1. CASE Told(updates, key) = {}
        <3>1. speak(H \cup {n}, key) = speak(H, key)
            BY <2>1
        <3>2. Word(H \cup {n}, key) = Word(H, key)
            <4> HIDE DEF speak
            <4> QED
                BY <1>2, <3>1
        <3> HIDE DEF speak, updates
        <3> QED
            BY <1>1, <2>1, <3>2
    <2>2. CASE Told(updates, key) # {}
        <3>1. /\ n \in speak(H \cup {n}, key)
              /\ speak(H \cup {n}, key) \subseteq 0 .. n
            <4>1. H \cup {n} \subseteq 0 .. n
                OBVIOUS
            <4>2. speak(H \cup {n}, key) \subseteq H \cup {n}
                OBVIOUS
            <4>3. n \in speak(H \cup {n}, key)
                BY <2>2
            <4> HIDE DEF speak
            <4> QED
                BY <4>1, <4>2, <4>3
        <3>2. Max(speak(H \cup {n}, key)) = n
            <4> HIDE DEF speak
            <4> QED
                BY <3>1, GreatestIs
        <3>3. Word(H \cup {n}, key) = Meant(updates[Max(Told(updates, key))][2])
            <4>1. speak(H \cup {n}, key) # {}
                BY <3>1
            <4> HIDE DEF speak
            <4> QED
                BY <1>2, <3>2, <4>1
        <3> HIDE DEF speak, updates
        <3> QED
            BY <1>1, <2>2, <3>3
    <2> QED
        BY <2>1, <2>2
<1> QED
    BY <1>1, <1>3

(* A function that goes through the same turns as another has the same values. *)
LEMMA SameTurns ==
    ASSUME NEW k \in Nat, NEW g, NEW h, g[0] = h[0],
           \A i \in 1 .. k : g[i - 1] = h[i - 1] => g[i] = h[i]
    PROVE  g[k] = h[k]
<1> DEFINE T == {i \in 0 .. k : g[i] = h[i]}
<1>1. 0 \in T
    OBVIOUS
<1>2. \A i \in 1 .. k : i - 1 \in T => i \in T
    OBVIOUS
<1> HIDE DEF T
<1>3. 0 .. k \subseteq T
    BY <1>1, <1>2, UpTo
<1>4. k \in T
    BY <1>3
<1> QED
    BY <1>4 DEF T

-----------------------------------------------------------------------------

(* Powers of ten, and the digits of a fraction. *)

ArePowers(p, n) == /\ p \in [0 .. n -> Nat \ {0}]
                   /\ p[0] = 1 /\ \A i \in 1 .. n : p[i] = 10 * p[i - 1]
                   /\ Power10(n) = p[n]

LEMMA PowerTurns ==
    ASSUME NEW n \in Nat
    PROVE  \E p : ArePowers(p, n)
<1> DEFINE S == Nat \ {0}
           R == [i \in 1 .. n |-> [x \in S |-> 10 * x]]
           IsPower(f) == f = [i \in 0 .. n |-> IF i = 0 THEN 1 ELSE 10 * f[i - 1]]
           power == CHOOSE f : IsPower(f)
<1>1. 1 \in S /\ R \in [1 .. n -> [S -> S]]
    <2>1. \A x \in S : 10 * x \in S
        OBVIOUS
    <2> HIDE DEF S
    <2>2. [x \in S |-> 10 * x] \in [S -> S]
        BY <2>1
    <2>3. 1 \in S
        BY DEF S
    <2> QED
        BY <2>2, <2>3
<1>2. PICK g \in [0 .. n -> S] : Follows(g, 1, R, n)
    <2> HIDE DEF S, R
    <2> QED
        BY <1>1, Recursion
<1>3. g[0] = 1 /\ \A i \in 1 .. n : g[i] = 10 * g[i - 1]
    <2>1. \A i \in 1 .. n : i - 1 \in 0 .. n
        OBVIOUS
    <2>2. \A i \in 1 .. n : g[i - 1] \in S
        BY <2>1
    <2> HIDE DEF S
    <2> QED
        BY <1>2, <2>2 DEF Follows
<1>4. IsPower(g)
    <2>1. \A i \in 0 .. n : i # 0 => i \in 1 .. n
        OBVIOUS
    <2> QED
        BY <1>2, <1>3, <2>1
<1>5. IsPower(power)
    BY <1>4
<1>6. Power10(n) = power[n]
    BY DEF Power10
<1> HIDE DEF power
<1>7. power[0] = 1 /\ \A i \in 1 .. n : power[i] = 10 * power[i - 1]
    <2>1. 0 \in 0 .. n /\ \A i \in 1 .. n : i \in 0 .. n /\ i # 0
        OBVIOUS
    <2> QED
        BY <1>5, <2>1
<1>8. ASSUME NEW k \in 0 .. n PROVE power[k] = g[k]
    <2>1. k \in Nat /\ \A i \in 1 .. k : i \in 1 .. n
        OBVIOUS
    <2>2. power[0] = g[0]
        BY <1>3, <1>7
    <2>3. \A i \in 1 .. k : power[i - 1] = g[i - 1] => power[i] = g[i]
        BY <1>3, <1>7, <2>1
    <2> QED
        BY <2>1, <2>2, <2>3, SameTurns
<1>9. Power10(n) = g[n]
    BY <1>6, <1>8
<1> HIDE DEF S
<1>10. ArePowers(g, n)
    BY <1>2, <1>3, <1>9 DEF S, ArePowers
<1> QED
    BY <1>10

LEMMA PowerStep ==
    ASSUME NEW n \in Nat
    PROVE  /\ Power10(n) \in Nat \ {0} /\ Power10(0) = 1
           /\ Power10(n + 1) = 10 * Power10(n)
<1>1. PICK p : ArePowers(p, n)
    BY PowerTurns
<1>2. PICK q : ArePowers(q, n + 1)
    <2>1. n + 1 \in Nat
        OBVIOUS
    <2> QED
        BY <2>1, PowerTurns
<1>3. PICK z : ArePowers(z, 0)
    BY PowerTurns
<1> USE DEF ArePowers
<1>4. p[n] = q[n]
    <2>1. \A i \in 1 .. n : p[i - 1] = q[i - 1] => p[i] = q[i]
        BY <1>1, <1>2
    <2>2. p[0] = q[0]
        BY <1>1, <1>2
    <2> QED
        BY <2>1, <2>2, SameTurns
<1>5. n + 1 \in 1 .. n + 1 /\ (n + 1) - 1 = n
    OBVIOUS
<1>6. q[n + 1] = 10 * q[n]
    BY <1>2, <1>5
<1> QED
    BY <1>1, <1>2, <1>3, <1>4, <1>6

LEMMA DigitRange ==
    ASSUME NEW frac \in Seq(0 .. 9), NEW i \in Nat \ {0}
    PROVE  Digit(frac, i) \in 0 .. 9
<1>1. i <= Len(frac) => i \in 1 .. Len(frac)
    OBVIOUS
<1> QED
    BY <1>1 DEF Digit

(* The loop of parse_pax_timestamp over the digits, turn by turn. *)
AreNanos(u, frac, n) ==
    /\ u \in [0 .. n -> Nat]
    /\ u[0] = 0 /\ \A i \in 1 .. n : u[i] = 10 * u[i - 1] + Digit(frac, i)

LEMMA NanosTurns ==
    ASSUME NEW frac \in Seq(0 .. 9)
    PROVE  \E u : AreNanos(u, frac, FracDigits) /\ Nanos(frac) = u[FracDigits]
<1> DEFINE n == FracDigits
           R == [i \in 1 .. n |-> [x \in Nat |-> 10 * x + Digit(frac, i)]]
           Is(f) == f = [i \in 0 .. n |-> IF i = 0 THEN 0
                                          ELSE 10 * f[i - 1] + Digit(frac, i)]
           upTo == CHOOSE f : Is(f)
<1>1. n \in Nat
    BY UnitsAssumption
<1>2. Nanos(frac) = upTo[n]
    BY DEF Nanos
<1> HIDE DEF n
<1>3. R \in [1 .. n -> [Nat -> Nat]]
    <2>1. \A i \in 1 .. n, x \in Nat : 10 * x + Digit(frac, i) \in Nat
        BY DigitRange
    <2> QED
        BY <2>1
<1>4. PICK g \in [0 .. n -> Nat] : Follows(g, 0, R, n)
    <2> HIDE DEF R
    <2> QED
        BY <1>1, <1>3, Recursion
<1>5. g[0] = 0 /\ \A i \in 1 .. n : g[i] = 10 * g[i - 1] + Digit(frac, i)
    <2>1. \A i \in 1 .. n : i - 1 \in 0 .. n
        BY <1>1
    <2>2. \A i \in 1 .. n : g[i - 1] \in Nat
        BY <2>1
    <2> QED
        BY <1>4, <2>2 DEF Follows
<1>6. Is(g)
    <2>1. \A i \in 0 .. n : i # 0 => i \in 1 .. n
        BY <1>1
    <2> QED
        BY <1>4, <1>5, <2>1
<1>7. Is(upTo)
    BY <1>6
<1> HIDE DEF upTo
<1>8. upTo[0] = 0 /\ \A i \in 1 .. n : upTo[i] = 10 * upTo[i - 1] + Digit(frac, i)
    <2>1. 0 \in 0 .. n /\ \A i \in 1 .. n : i \in 0 .. n /\ i # 0
        BY <1>1
    <2> QED
        BY <1>7, <2>1
<1>9. upTo[n] = g[n]
    <2>1. upTo[0] = g[0]
        BY <1>5, <1>8
    <2>2. \A i \in 1 .. n : upTo[i - 1] = g[i - 1] => upTo[i] = g[i]
        BY <1>5, <1>8
    <2> QED
        BY <1>1, <2>1, <2>2, SameTurns
<1>10. AreNanos(g, frac, n)
    BY <1>4, <1>5 DEF AreNanos
<1> QED
    BY <1>2, <1>9, <1>10 DEF n

(* The fraction that is kept is less than a second. *)
LEMMA NanosRange ==
    ASSUME NEW frac \in Seq(0 .. 9)
    PROVE  Unit \in Nat \ {0} /\ Nanos(frac) \in 0 .. Unit - 1
<1>1. PICK u : AreNanos(u, frac, FracDigits) /\ Nanos(frac) = u[FracDigits]
    BY NanosTurns
<1>2. FracDigits \in Nat
    BY UnitsAssumption
<1> DEFINE T == {i \in 0 .. FracDigits : u[i] <= Power10(i) - 1}
<1>3. 0 \in T
    BY <1>1, <1>2, PowerStep DEF AreNanos
<1>4. ASSUME NEW i \in 1 .. FracDigits, i - 1 \in T PROVE i \in T
    <2>1. /\ i - 1 \in Nat /\ (i - 1) + 1 = i /\ i \in Nat \ {0}
          /\ i \in 0 .. FracDigits /\ i - 1 \in 0 .. FracDigits
        BY <1>2
    <2>2. /\ Power10(i - 1) \in Nat \ {0} /\ Power10((i - 1) + 1) = 10 * Power10(i - 1)
        BY <2>1, PowerStep
    <2>3. Digit(frac, i) \in 0 .. 9
        BY <2>1, DigitRange
    <2>4. u[i] = 10 * u[i - 1] + Digit(frac, i) /\ u[i - 1] \in Nat
        BY <1>1, <2>1 DEF AreNanos
    <2>5. u[i - 1] <= Power10(i - 1) - 1
        BY <1>4
    <2>6. Power10(i) = 10 * Power10(i - 1)
        BY <2>1, <2>2
    <2>7. u[i] <= Power10(i) - 1
        <3> DEFINE d == Digit(frac, i)
                   v == u[i - 1]
                   p == Power10(i - 1)
        <3>1. d \in 0 .. 9 /\ v \in Nat /\ p \in Nat /\ v <= p - 1
            BY <2>2, <2>3, <2>4, <2>5
        <3>2. u[i] = 10 * v + d /\ Power10(i) = 10 * p
            BY <2>4, <2>6
        <3> HIDE DEF d, v, p
        <3> QED
            BY <3>1, <3>2
    <2> QED
        BY <2>1, <2>7
<1> HIDE DEF T
<1>5. FracDigits \in T
    <2>1. 0 .. FracDigits \subseteq T
        BY <1>2, <1>3, <1>4, UpTo
    <2> QED
        BY <1>2, <2>1
<1>6. u[FracDigits] <= Power10(FracDigits) - 1
    BY <1>5 DEF T
<1>7. u[FracDigits] \in Nat
    BY <1>1, <1>2 DEF AreNanos
<1>8. Power10(FracDigits) \in Nat \ {0}
    BY <1>2, PowerStep
<1> QED
    BY <1>1, <1>6, <1>7, <1>8 DEF Unit

LEMMA Distribute ==
    ASSUME NEW p \in Int, NEW u \in Int, NEW d \in Int
    PROVE  p * (10 * u + d) = (10 * p) * u + p * d
    OBVIOUS

(* The digits have the weights of their places. *)
LEMMA Weights ==
    ASSUME NEW frac \in Seq(0 .. 9), NEW base \in Int, NEW w,
           w = [i \in 0 .. FracDigits |->
                   IF i = 0 THEN base
                   ELSE w[i - 1] + Power10(FracDigits - i) * Digit(frac, i)]
    PROVE  w[FracDigits] = base + Nanos(frac)
<1>1. PICK u : AreNanos(u, frac, FracDigits) /\ Nanos(frac) = u[FracDigits]
    BY NanosTurns
<1>2. FracDigits \in Nat
    BY UnitsAssumption
<1>3. /\ w[0] = base
      /\ \A i \in 1 .. FracDigits :
            w[i] = w[i - 1] + Power10(FracDigits - i) * Digit(frac, i)
    <2>1. 0 \in 0 .. FracDigits /\ \A i \in 1 .. FracDigits : i \in 0 .. FracDigits /\ i # 0
        BY <1>2
    <2> QED
        BY <2>1
<1> DEFINE T == {i \in 0 .. FracDigits : w[i] = base + Power10(FracDigits - i) * u[i]}
<1>4. 0 \in T
    <2>1. u[0] = 0
        BY <1>1 DEF AreNanos
    <2>2. Power10(FracDigits - 0) \in Nat
        BY <1>2, PowerStep
    <2>3. w[0] = base + Power10(FracDigits - 0) * u[0]
        BY <1>3, <2>1, <2>2
    <2> QED
        BY <1>2, <2>3
<1>5. ASSUME NEW i \in 1 .. FracDigits, i - 1 \in T PROVE i \in T
    <2> DEFINE d == Digit(frac, i)
               p == Power10(FracDigits - i)
               v == u[i - 1]
    <2>1. /\ i \in 0 .. FracDigits /\ i - 1 \in 0 .. FracDigits /\ i \in Nat \ {0}
          /\ FracDigits - i \in Nat /\ FracDigits - (i - 1) = (FracDigits - i) + 1
        BY <1>2
    <2>2. d \in Int /\ v \in Int /\ p \in Int
        <3>1. d \in 0 .. 9
            BY <2>1, DigitRange
        <3>2. v \in Nat
            BY <1>1, <2>1 DEF AreNanos
        <3>3. p \in Nat
            BY <2>1, PowerStep
        <3> QED
            BY <3>1, <3>2, <3>3
    <2>3. u[i] = 10 * v + d
        BY <1>1 DEF AreNanos
    <2>4. w[i] = w[i - 1] + p * d
        BY <1>3
    <2>5. w[i - 1] = base + (10 * p) * v
        <3>1. w[i - 1] = base + Power10(FracDigits - (i - 1)) * u[i - 1]
            BY <1>5
        <3>2. Power10((FracDigits - i) + 1) = 10 * Power10(FracDigits - i)
            BY <2>1, PowerStep
        <3>3. Power10(FracDigits - (i - 1)) = 10 * p
            BY <2>1, <3>2
        <3> HIDE DEF p
        <3> QED
            BY <3>1, <3>3
    <2> HIDE DEF d, p, v
    <2>6. p * u[i] = (10 * p) * v + p * d
        BY <2>2, <2>3, Distribute
    <2>7. (10 * p) * v \in Int /\ p * d \in Int
        BY <2>2
    <2>8. w[i] = base + p * u[i]
        BY <2>4, <2>5, <2>6, <2>7
    <2> QED
        BY <2>1, <2>8 DEF p
<1> HIDE DEF T
<1>6. FracDigits \in T
    <2>1. 0 .. FracDigits \subseteq T
        BY <1>2, <1>4, <1>5, UpTo
    <2> QED
        BY <1>2, <2>1
<1>7. w[FracDigits] = base + Power10(FracDigits - FracDigits) * u[FracDigits]
    BY <1>6 DEF T
<1>8. FracDigits - FracDigits = 0 /\ u[FracDigits] \in Nat
    BY <1>1, <1>2 DEF AreNanos
<1>9. Power10(0) = 1
    BY PowerStep
<1> QED
    BY <1>1, <1>7, <1>8, <1>9

-----------------------------------------------------------------------------

(* The fields of a member. *)

(* The last value of a key among the records that hold, read in a way. *)
LEMMA FieldsOf ==
    ASSUME NEW r, NEW pax, pax = PaxDataFromRecords(r)
    PROVE  /\ pax.uid = AndThen(Said(r, Key("uid")), ReadU64)
           /\ pax.gid = AndThen(Said(r, Key("gid")), ReadU64)
           /\ pax.size = AndThen(Said(r, Key("size")), ReadU64)
           /\ pax.mode = AndThen(Said(r, Key("mode")), ReadMode)
           /\ pax.mtime = AndThen(Said(r, Key("mtime")), ReadTime)
           /\ pax.atime = AndThen(Said(r, Key("atime")), ReadTime)
           /\ pax.ctime = AndThen(Said(r, Key("ctime")), ReadTime)
           /\ pax.uname = AndThen(Said(r, Key("uname")), ReadUtf8)
           /\ pax.gname = AndThen(Said(r, Key("gname")), ReadUtf8)
           /\ pax.path = Said(r, Key("path"))
           /\ pax.linkpath = Said(r, Key("linkpath"))
           /\ pax.sparse = \E k \in DOMAIN r : k[1] = "GNU.sparse."
           /\ pax.xattrs = Xattrs(r)
    BY DEF PaxDataFromRecords
IsOption(word) == word = None \/ \E v : word = {v}

LEMMA Unwrapped ==
    ASSUME NEW x, NEW default
    PROVE  UnwrapOr(Some(x), default) = x /\ UnwrapOr(None, default) = default
    BY DEF UnwrapOr, None, Some

LEMMA ReadOption ==
    ASSUME NEW v
    PROVE  /\ AndThen({v}, ReadU64) = ReadU64(v) /\ AndThen(None, ReadU64) = None
           /\ AndThen({v}, ReadMode) = ReadMode(v) /\ AndThen(None, ReadMode) = None
           /\ AndThen({v}, ReadTime) = ReadTime(v) /\ AndThen(None, ReadTime) = None
           /\ AndThen({v}, ReadUtf8) = ReadUtf8(v) /\ AndThen(None, ReadUtf8) = None
    BY DEF AndThen, None

(* A number that can be read counts, and that of the header if there is none. *)
LEMMA NumberCounts ==
    ASSUME NEW word, IsOption(word), NEW header
    PROVE  /\ OneOf({v \in word : v.as = "number" /\ v.n <= MaxU64 /\ (TRUE \/ ~v.padded)},
                    header, UnwrapOr(AndThen(word, ReadU64), header))
           /\ OneOf({v \in word : v.as = "number" /\ v.n <= MaxU32 /\ (FALSE \/ ~v.padded)},
                    header, UnwrapOr(AndThen(word, ReadMode), header))
<1>1. CASE word = None
    BY <1>1, ReadOption, Unwrapped DEF OneOf, None
<1>2. ASSUME NEW v, word = {v}
      PROVE  OneOf({u \in word : u.as = "number" /\ u.n <= MaxU64 /\ (TRUE \/ ~u.padded)},
                   header, UnwrapOr(AndThen(word, ReadU64), header))
    <2>1. AndThen(word, ReadU64) = ReadU64(v)
        BY <1>2, ReadOption
    <2>2. CASE v.as = "number" /\ v.n <= MaxU64
        <3>1. UnwrapOr(AndThen(word, ReadU64), header) = v.n
            BY <2>1, <2>2, Unwrapped DEF ReadU64
        <3> QED
            BY <1>2, <2>2, <3>1 DEF OneOf, None
    <2>3. CASE ~(v.as = "number" /\ v.n <= MaxU64)
        <3>1. UnwrapOr(AndThen(word, ReadU64), header) = header
            BY <2>1, <2>3, Unwrapped DEF ReadU64
        <3> QED
            BY <1>2, <2>3, <3>1 DEF OneOf, None
    <2> QED
        BY <2>2, <2>3
<1>3. ASSUME NEW v, word = {v}
      PROVE  OneOf({u \in word : u.as = "number" /\ u.n <= MaxU32 /\ (FALSE \/ ~u.padded)},
                   header, UnwrapOr(AndThen(word, ReadMode), header))
    <2>1. AndThen(word, ReadMode) = ReadMode(v)
        BY <1>3, ReadOption
    <2>2. CASE v.as = "number" /\ v.n <= MaxU32 /\ ~v.padded
        <3>1. UnwrapOr(AndThen(word, ReadMode), header) = v.n
            BY <2>1, <2>2, Unwrapped DEF ReadMode
        <3> QED
            BY <1>3, <2>2, <3>1 DEF OneOf, None
    <2>3. CASE ~(v.as = "number" /\ v.n <= MaxU32 /\ ~v.padded)
        <3>1. UnwrapOr(AndThen(word, ReadMode), header) = header
            BY <2>1, <2>3, Unwrapped DEF ReadMode
        <3> QED
            BY <1>3, <2>3, <3>1 DEF OneOf, None
    <2> QED
        BY <2>2, <2>3
<1> QED
    BY <1>1, <1>2, <1>3 DEF IsOption

(* The time a text denotes, as whole seconds and the fraction that is kept. *)
LEMMA DenotesSplit ==
    ASSUME NEW v, v.whole \in Nat, v.frac \in Seq(0 .. 9)
    PROVE  /\ Unit * v.whole \in Nat
           /\ Denotes(v) = IF v.sign = "-" THEN -(Unit * v.whole + Nanos(v.frac))
                           ELSE Unit * v.whole + Nanos(v.frac)
<1> DEFINE n == FracDigits
           frac == v.frac
           base == Unit * v.whole
           weight(i) == Power10(FracDigits - i) * Digit(frac, i)
           R == [i \in 1 .. n |-> [x \in Int |-> x + weight(i)]]
           Is(f) == f = [i \in 0 .. n |->
                           IF i = 0 THEN base
                           ELSE f[i - 1] + Power10(FracDigits - i) * Digit(frac, i)]
           units == CHOOSE f : Is(f)
<1>1. n \in Nat
    BY UnitsAssumption
<1>2. base \in Nat
    <2>1. Unit \in Nat
        BY NanosRange
    <2> HIDE DEF n
    <2> QED
        BY <2>1
<1>3. Denotes(v) = IF v.sign = "-" THEN -units[n] ELSE units[n]
    BY DEF Denotes
<1>4. ASSUME NEW i \in 1 .. n PROVE weight(i) \in Int
    <2>1. FracDigits - i \in Nat /\ i \in Nat \ {0}
        BY <1>1
    <2>2. Power10(FracDigits - i) \in Nat
        BY <2>1, PowerStep
    <2>3. Digit(frac, i) \in 0 .. 9
        BY <2>1, DigitRange
    <2> QED
        BY <2>2, <2>3
<1> HIDE DEF base
<1>5. R \in [1 .. n -> [Int -> Int]]
    <2> HIDE DEF weight
    <2>1. \A i \in 1 .. n, x \in Int : x + weight(i) \in Int
        BY <1>4
    <2> QED
        BY <2>1
<1>6. PICK g \in [0 .. n -> Int] : Follows(g, base, R, n)
    <2>1. base \in Int
        BY <1>2
    <2> HIDE DEF R, n
    <2> QED
        BY <1>1, <1>5, <2>1, Recursion
<1>7. g[0] = base /\ \A i \in 1 .. n : g[i] = g[i - 1] + weight(i)
    <2>1. \A i \in 1 .. n : i - 1 \in 0 .. n
        BY <1>1
    <2>2. \A i \in 1 .. n : g[i - 1] \in Int
        BY <2>1
    <2> HIDE DEF weight
    <2> QED
        BY <1>6, <2>2 DEF Follows
<1>8. Is(g)
    <2>1. \A i \in 0 .. n : i # 0 => i \in 1 .. n
        BY <1>1
    <2> QED
        BY <1>6, <1>7, <2>1
<1>9. Is(units)
    BY <1>8
<1> HIDE DEF units
<1>10. units[n] = base + Nanos(frac)
    <2>1. base \in Int
        BY <1>2
    <2> QED
        BY <1>9, <2>1, Weights
<1> QED
    BY <1>2, <1>3, <1>10 DEF base

(* A timestamp that fits is read as exactly the time it denotes, as a second and
   a fraction of it that is not negative. *)
LEMMA TimeRead ==
    ASSUME NEW v, v.as = "time", v.whole \in Nat, v.frac \in Seq(0 .. 9),
           v.whole <= MaxI64
    PROVE  \E t : ReadTime(v) = Some(t) /\ IsInstant(t) /\ Says(v, t)
<1> DEFINE ns == Nanos(v.frac)
           U == Unit
           w == v.whole
           time(sec, nsec) == [sec |-> sec, ns |-> Some(nsec)]
<1>1. U \in Nat \ {0} /\ ns \in 0 .. U - 1
    BY NanosRange
<1>2. MaxI64 \in Nat /\ w \in Nat /\ w <= MaxI64
    BY WidthsAssumption
<1>3. /\ U * w \in Nat
      /\ Denotes(v) = IF v.sign = "-" THEN -(U * w + ns) ELSE U * w + ns
    BY DenotesSplit
<1>4. ReadTime(v) = IF v.sign # "-" THEN Some(time(w, ns))
                    ELSE IF ns = 0 THEN Some(time(-w, 0))
                    ELSE Some(time(-w - 1, U - ns))
    BY <1>2 DEF ReadTime, ParsePaxTimestamp
<1>5. ASSUME NEW sec \in -MaxI64 - 1 .. MaxI64, NEW nsec \in 0 .. U - 1,
             U * sec + nsec = Denotes(v)
      PROVE  IsInstant(time(sec, nsec)) /\ Says(v, time(sec, nsec))
    <2>1. IsInstant(time(sec, nsec))
        BY DEF IsInstant, Some
    <2>2. UnwrapOr(time(sec, nsec).ns, 0) = nsec
        BY Unwrapped
    <2>3. Says(v, time(sec, nsec))
        BY <1>5, <2>2 DEF Says
    <2> QED
        BY <2>1, <2>3
<1> HIDE DEF ns, U, w, time
<1>6. CASE v.sign # "-"
    <2>1. w \in -MaxI64 - 1 .. MaxI64
        BY <1>2
    <2> QED
        BY <1>1, <1>3, <1>4, <1>5, <1>6, <2>1
<1>7. CASE v.sign = "-" /\ ns = 0
    <2>1. -w \in -MaxI64 - 1 .. MaxI64 /\ 0 \in 0 .. U - 1
        BY <1>1, <1>2
    <2>2. U * (-w) + 0 = -(U * w + 0)
        BY <1>1, <1>2
    <2> QED
        BY <1>3, <1>4, <1>5, <1>7, <2>1, <2>2
<1>8. CASE v.sign = "-" /\ ns # 0
    <2>1. -w - 1 \in -MaxI64 - 1 .. MaxI64 /\ U - ns \in 0 .. U - 1
        BY <1>1, <1>2, <1>8
    <2>2. U * (-w - 1) + (U - ns) = -(U * w + ns)
        BY <1>1, <1>2
    <2> QED
        BY <1>3, <1>4, <1>5, <1>8, <2>1, <2>2
<1> QED
    BY <1>6, <1>7, <1>8

LEMMA TimeCounts ==
    ASSUME NEW word, IsOption(word), \A v \in word : IsValue(v),
           NEW words, words = {v \in word : v.as = "time" /\ v.whole <= MaxI64},
           NEW times, times = AndThen(word, ReadTime)
    PROVE  /\ SayAll(words, times)
           /\ \A t \in times : IsInstant(t)
           /\ times = None \/ \E v \in words : \E t : times = Some(t) /\ Says(v, t)
<1>1. CASE word = None
    <2>1. words = None /\ times = None
        BY <1>1, ReadOption DEF None
    <2> QED
        BY <2>1 DEF SayAll, None
<1>2. ASSUME NEW v, word = {v}
      PROVE  /\ SayAll(words, times)
             /\ \A t \in times : IsInstant(t)
             /\ times = None \/ \E u \in words : \E t : times = Some(t) /\ Says(u, t)
    <2>1. times = ReadTime(v)
        BY <1>2, ReadOption
    <2>2. CASE v.as = "time" /\ v.whole <= MaxI64
        <3>1. v.whole \in Nat /\ v.frac \in Seq(0 .. 9)
            BY <1>2, <2>2 DEF IsValue
        <3>2. PICK t : ReadTime(v) = Some(t) /\ IsInstant(t) /\ Says(v, t)
            BY <2>2, <3>1, TimeRead
        <3>3. words = {v}
            BY <1>2, <2>2
        <3>4. times = {t} /\ times = Some(t)
            BY <2>1, <3>2 DEF Some
        <3>5. SayAll(words, times)
            BY <3>2, <3>3, <3>4 DEF SayAll, None
        <3> QED
            BY <3>2, <3>3, <3>4, <3>5
    <2>3. CASE ~(v.as = "time" /\ v.whole <= MaxI64)
        <3>1. words = None
            BY <1>2, <2>3 DEF None
        <3>2. v.as = "time" => v.whole > MaxI64
            <4>1. v.as = "time" => v.whole \in Nat
                BY <1>2 DEF IsValue
            <4> QED
                BY <2>3, <4>1, WidthsAssumption
        <3>3. times = None
            BY <2>1, <3>2 DEF ReadTime, ParsePaxTimestamp
        <3> QED
            BY <3>1, <3>3 DEF SayAll, None
    <2> QED
        BY <2>2, <2>3
<1> QED
    BY <1>1, <1>2 DEF IsOption

LEMMA TextCounts ==
    ASSUME NEW word, IsOption(word)
    PROVE  {v.name : v \in {w \in word : w.as = "text" /\ w.utf8}} = AndThen(word, ReadUtf8)
    BY DEF AndThen, ReadUtf8, Some, None

(* A number that is read fits its width. *)
LEMMA NumberFits ==
    ASSUME NEW word, IsOption(word), \A v \in word : IsValue(v)
    PROVE  /\ AndThen(word, ReadU64) \subseteq 0 .. MaxU64
           /\ AndThen(word, ReadMode) \subseteq 0 .. MaxU32
           /\ IsOption(AndThen(word, ReadU64)) /\ IsOption(AndThen(word, ReadMode))
<1>1. CASE word = None
    <2>1. AndThen(word, ReadU64) = None /\ AndThen(word, ReadMode) = None
        BY <1>1, ReadOption
    <2> QED
        BY <2>1 DEF IsOption, None
<1>2. ASSUME NEW v, word = {v}
      PROVE  /\ AndThen(word, ReadU64) \subseteq 0 .. MaxU64
             /\ AndThen(word, ReadMode) \subseteq 0 .. MaxU32
             /\ IsOption(AndThen(word, ReadU64)) /\ IsOption(AndThen(word, ReadMode))
    <2>1. AndThen(word, ReadU64) = ReadU64(v) /\ AndThen(word, ReadMode) = ReadMode(v)
        BY <1>2, ReadOption
    <2>2. v.as = "number" => v.n \in Nat
        BY <1>2 DEF IsValue
    <2>3. MaxU64 \in Nat /\ MaxU32 \in Nat
        BY WidthsAssumption
    <2>4. ReadU64(v) \subseteq 0 .. MaxU64 /\ IsOption(ReadU64(v))
        <3>1. CASE v.as = "number" /\ v.n <= MaxU64
            BY <2>2, <2>3, <3>1 DEF ReadU64, Some, IsOption
        <3>2. CASE ~(v.as = "number" /\ v.n <= MaxU64)
            BY <3>2 DEF ReadU64, None, IsOption
        <3> QED
            BY <3>1, <3>2
    <2>5. ReadMode(v) \subseteq 0 .. MaxU32 /\ IsOption(ReadMode(v))
        <3>1. CASE v.as = "number" /\ v.n <= MaxU32 /\ ~v.padded
            BY <2>2, <2>3, <3>1 DEF ReadMode, Some, IsOption
        <3>2. CASE ~(v.as = "number" /\ v.n <= MaxU32 /\ ~v.padded)
            BY <3>2 DEF ReadMode, None, IsOption
        <3> QED
            BY <3>1, <3>2
    <2> QED
        BY <2>1, <2>4, <2>5
<1> QED
    BY <1>1, <1>2 DEF IsOption

LEMMA UnwrapIn ==
    ASSUME NEW S, NEW option, option \subseteq S, NEW default \in S
    PROVE  UnwrapOr(option, default) \in S
<1>1. CASE option = None
    BY <1>1, Unwrapped
<1>2. CASE option # None
    <2>1. (CHOOSE x \in option : TRUE) \in option
        BY <1>2 DEF None
    <2> QED
        BY <1>2, <2>1 DEF UnwrapOr
<1> QED
    BY <1>1, <1>2

(* An attribute is the last word on it in the one format, or else in the other. *)
LEMMA XattrCounts ==
    ASSUME NEW r, NEW x \in XattrNames, NEW attrs, attrs = Xattrs(r),
           NEW ours, ours = Said(r, Schily(x)),
           NEW theirs, theirs = Said(r, Libarchive(x)) \ {Junk},
           NEW word, word = IF ours # None THEN ours ELSE theirs
    PROVE  IF word = None THEN x \notin DOMAIN attrs
           ELSE x \in DOMAIN attrs /\ attrs[x] \in word
<1>1. CASE Schily(x) \in DOMAIN r
    <2>1. Said(r, Schily(x)) = {r[Schily(x)]}
        BY <1>1 DEF Said, Some
    <2>2. x \in DOMAIN attrs /\ attrs[x] = r[Schily(x)]
        BY <1>1 DEF Xattrs
    <2> QED
        BY <2>1, <2>2 DEF None
<1>2. CASE Schily(x) \notin DOMAIN r
    <2>1. Said(r, Schily(x)) = None
        BY <1>2 DEF Said
    <2>2. CASE Libarchive(x) \in DOMAIN r /\ r[Libarchive(x)] # Junk
        <3>1. Said(r, Libarchive(x)) \ {Junk} = {r[Libarchive(x)]}
            BY <2>2 DEF Said, Some
        <3>2. x \in DOMAIN attrs /\ attrs[x] = r[Libarchive(x)]
            BY <1>2, <2>2 DEF Xattrs
        <3> QED
            BY <2>1, <3>1, <3>2 DEF None
    <2>3. CASE ~(Libarchive(x) \in DOMAIN r /\ r[Libarchive(x)] # Junk)
        <3>1. Said(r, Libarchive(x)) \ {Junk} = None
            BY <2>3 DEF Said, Some, None
        <3>2. x \notin DOMAIN attrs
            BY <1>2, <2>3 DEF Xattrs
        <3> QED
            BY <2>1, <3>1, <3>2
    <2> QED
        BY <2>2, <2>3
<1> QED
    BY <1>1, <1>2
-----------------------------------------------------------------------------

(* The invariant. *)

GlobalsBefore(n) == {i \in 1 .. n - 1 : stream[i].global}

(* The globals read so far: every key has the last word of their headers. *)
GlobalsHeld == AreWordsOf(globalPax, GlobalsBefore(next))

(* The stream of the scenario has the types the assumption gives it. *)
LEMMA StreamTypes ==
    ASSUME scenario \in Scenarios
    PROVE  /\ Len(stream) \in Nat /\ DOMAIN stream = 1 .. Len(stream)
           /\ scenario.offset \in Int
           /\ \A n \in 1 .. Len(stream) :
                 /\ IsHeader(stream[n].header)
                 /\ stream[n].records \in Seq(Range(stream[n].records))
                 /\ \A j \in DOMAIN stream[n].records :
                       /\ stream[n].records[j][1] \in Keys
                       /\ IsValue(stream[n].records[j][2])
<1>1. /\ scenario.offset \in Int
      /\ stream \in Seq(Range(stream))
      /\ \A e \in Range(stream) :
            /\ IsHeader(e.header)
            /\ e.records \in Seq(Range(e.records))
            /\ \A r \in Range(e.records) : r[1] \in Keys /\ IsValue(r[2])
    BY ScenariosAssumption DEF stream
<1>2. Len(stream) \in Nat /\ DOMAIN stream = 1 .. Len(stream)
    BY <1>1
<1>3. \A n \in 1 .. Len(stream) : stream[n] \in Range(stream)
    BY <1>2 DEF Range
<1>4. ASSUME NEW n \in 1 .. Len(stream), NEW j \in DOMAIN stream[n].records
      PROVE  stream[n].records[j] \in Range(stream[n].records)
    BY DEF Range
<1> QED
    BY <1>1, <1>2, <1>3, <1>4

(* Words come from records, so that they are of the types of these. *)
LEMMA WordTypes ==
    ASSUME scenario \in Scenarios, NEW n \in 1 .. Len(stream),
           NEW H \in SUBSET (1 .. n), NEW key, NEW word, word = Word(H, key)
    PROVE  /\ IsOption(word) /\ \A v \in word : IsValue(v)
           /\ word # None => key \in Keys
<1> DEFINE speak == {i \in H : Told(stream[i].records, key) # {}}
           last == stream[Max(speak)].records
           told == Told(last, key)
<1>1. Len(stream) \in Nat
    BY StreamTypes
<1>2. CASE speak = {}
    <2>1. word = None
        BY <1>2 DEF Word
    <2> QED
        BY <2>1 DEF IsOption, None
<1>3. CASE speak # {}
    <2>1. speak \subseteq 0 .. n /\ n \in Nat
        <3>1. n \in Nat /\ H \subseteq 0 .. n
            BY <1>1
        <3>2. speak \subseteq H
            OBVIOUS
        <3> HIDE DEF speak
        <3> QED
            BY <3>1, <3>2
    <2>2. Max(speak) \in speak
        <3> HIDE DEF speak
        <3> QED
            BY <1>3, <2>1, GreatestOf
    <2>3. Max(speak) \in 1 .. Len(stream) /\ told # {}
        <3>1. Max(speak) \in H /\ told # {}
            BY <2>2
        <3> DEFINE s == Max(speak)
        <3>2. s \in H
            BY <3>1
        <3> HIDE DEF s
        <3>3. s \in 1 .. Len(stream)
            BY <1>1, <3>2
        <3> QED
            BY <3>1, <3>3 DEF s
    <2>4. word = {last[Max(told)][2]} \ {Empty}
        BY <1>3 DEF Word
    <2> HIDE DEF speak
    <2>5. /\ last \in Seq(Range(last))
          /\ \A j \in DOMAIN last : last[j][1] \in Keys /\ IsValue(last[j][2])
        <3> DEFINE s == Max(speak)
        <3> HIDE DEF s
        <3>1. s \in 1 .. Len(stream)
            BY <2>3 DEF s
        <3> QED
            BY <3>1, StreamTypes DEF s
    <2> HIDE DEF last
    <2>6. Len(last) \in Nat /\ told \subseteq 0 .. Len(last)
        BY <2>5 DEF Told
    <2>7. Max(told) \in told
        <3> HIDE DEF told
        <3> QED
            BY <2>3, <2>6, GreatestOf
    <2>8. Max(told) \in DOMAIN last /\ last[Max(told)][1] = key
        BY <2>7 DEF Told
    <2> HIDE DEF told
    <2>9. key \in Keys /\ IsValue(last[Max(told)][2])
        BY <2>5, <2>8
    <2> QED
        BY <2>4, <2>9 DEF IsOption, None
<1> QED
    BY <1>2, <1>3

(* The globals with the records of the next header are what holds there. *)
LEMMA EffectiveRecords ==
    ASSUME scenario \in Scenarios, GlobalsHeld, next \in 1 .. Len(stream),
           NEW r, r = UpdatePaxRecords(globalPax, E.records)
    PROVE  /\ AreWordsOf(r, GlobalsBefore(next) \cup {next})
           /\ \A key : Said(r, key) = LastWord(next, key)
<1> DEFINE H == GlobalsBefore(next)
<1>1. /\ Len(stream) \in Nat /\ next \in Nat
      /\ stream[next].records \in Seq(Range(stream[next].records))
    BY StreamTypes
<1>2. H \in SUBSET (0 .. next - 1)
    BY <1>1 DEF GlobalsBefore
<1>3. r = UpdatePaxRecords(globalPax, stream[next].records)
    BY DEF E
<1>4. AreWordsOf(globalPax, H)
    BY DEF GlobalsHeld
<1>5. H \cup {next} = {i \in 1 .. next : i = next \/ stream[i].global}
    BY <1>1 DEF GlobalsBefore
<1> HIDE DEF H
<1>6. AreWordsOf(r, H \cup {next})
    BY <1>1, <1>2, <1>3, <1>4, WordGrows
<1>7. \A key : LastWord(next, key) = Word(H \cup {next}, key)
    BY <1>5 DEF LastWord
<1> QED
    BY <1>6, <1>7 DEF AreWordsOf, H

(* The keys of the records that hold are known ones. *)
LEMMA EffectiveKeys ==
    ASSUME scenario \in Scenarios, next \in 1 .. Len(stream),
           NEW r, \A key : Said(r, key) = LastWord(next, key)
    PROVE  /\ DOMAIN r \subseteq Keys
           /\ \A key : IsOption(Said(r, key)) /\ \A v \in Said(r, key) : IsValue(v)
<1>1. ASSUME NEW key
      PROVE  /\ IsOption(LastWord(next, key)) /\ \A v \in LastWord(next, key) : IsValue(v)
             /\ LastWord(next, key) # None => key \in Keys
    <2> DEFINE H == {i \in 1 .. next : i = next \/ stream[i].global}
    <2>1. H \in SUBSET (1 .. next) /\ LastWord(next, key) = Word(H, key)
        BY DEF LastWord
    <2> HIDE DEF H
    <2> QED
        BY <2>1, WordTypes
<1>2. ASSUME NEW key \in DOMAIN r PROVE key \in Keys
    <2>1. Said(r, key) # None
        BY DEF Said, Some, None
    <2> QED
        BY <1>1, <2>1
<1> QED
    BY <1>1, <1>2

(* What the parser takes as the size: the member's own word on it, or that of the
   header. *)
LEMMA OwnSize ==
    ASSUME scenario \in Scenarios, GlobalsHeld, next \in 1 .. Len(stream),
           NEW r, r = UpdatePaxRecords(globalPax, E.records),
           NEW size, size = AndThen(Said(r, Key("size")), ReadU64)
    PROVE  /\ EntrySize(E) \in 0 .. MaxU64
           /\ size = None => EntrySize(E) = E.header.size
<1> DEFINE key == Key("size")
           own == UpdatePaxRecords(<<>>, E.records)
           told == Told(E.records, key)
<1>1. /\ E.records \in Seq(Range(E.records)) /\ IsHeader(E.header)
      /\ \A j \in DOMAIN E.records : IsValue(E.records[j][2])
    BY StreamTypes DEF E
<1>2. IsMapping(<<>>) /\ \A k : Said(<<>>, k) = None
    BY DEF IsMapping, Said
<1>3. Said(own, key) = IF told = {} THEN None ELSE Meant(E.records[Max(told)][2])
    <2> HIDE DEF own
    <2>1. own = UpdatePaxRecords(<<>>, E.records)
        BY DEF own
    <2>2. \A k : Said(own, k) = IF Told(E.records, k) = {} THEN Said(<<>>, k)
                                ELSE Meant(E.records[Max(Told(E.records, k))][2])
        BY <1>1, <1>2, <2>1, LastUpdateCounts
    <2> QED
        BY <1>2, <2>2
<1>4. told # {} => Said(r, key) = Meant(E.records[Max(told)][2])
    <2>1. \A k : Said(r, k) = IF Told(E.records, k) = {} THEN Said(globalPax, k)
                              ELSE Meant(E.records[Max(Told(E.records, k))][2])
        BY <1>1, LastUpdateCounts DEF GlobalsHeld, AreWordsOf
    <2> QED
        BY <2>1
<1>5. Said(own, key) = None \/ Said(own, key) = Said(r, key)
    BY <1>3, <1>4
<1>6. \A k : Said(r, k) = LastWord(next, k)
    BY EffectiveRecords
<1>7. IsOption(Said(r, key)) /\ \A v \in Said(r, key) : IsValue(v)
    BY <1>6, EffectiveKeys
<1>8. IsOption(Said(own, key)) /\ \A v \in Said(own, key) : IsValue(v)
    BY <1>5, <1>7 DEF IsOption, None
<1>9. EntrySize(E) = UnwrapOr(AndThen(Said(own, key), ReadU64), E.header.size)
    BY FieldsOf DEF EntrySize
<1> HIDE DEF own, key
<1>10. EntrySize(E) \in 0 .. MaxU64
    <2> DEFINE ownSize == AndThen(Said(own, key), ReadU64)
               default == E.header.size
    <2>1. ownSize \subseteq 0 .. MaxU64
        BY <1>8, NumberFits
    <2>2. default \in 0 .. MaxU64
        BY <1>1 DEF IsHeader
    <2>3. EntrySize(E) = UnwrapOr(ownSize, default)
        BY <1>9
    <2> HIDE DEF ownSize, default
    <2>4. UnwrapOr(ownSize, default) \in 0 .. MaxU64
        BY <2>1, <2>2, UnwrapIn
    <2> QED
        BY <2>3, <2>4
<1>11. ASSUME size = None PROVE EntrySize(E) = E.header.size
    <2>1. AndThen(Said(own, key), ReadU64) = None
        BY <1>5, <1>11, ReadOption DEF key
    <2> QED
        BY <1>9, <2>1, Unwrapped
<1> QED
    BY <1>10, <1>11

(* What the records that hold say of sparse files. *)
LEMMA SparseKeys ==
    ASSUME NEW r, DOMAIN r \subseteq Keys
    PROVE  (\E k \in DOMAIN r : k[1] = "GNU.sparse.")
              <=> \E g \in {"major", "name"} : Said(r, GnuSparse(g)) # None
<1>1. \A k : k \in DOMAIN r <=> Said(r, k) # None
    BY DEF Said, Some, None
<1>2. ASSUME NEW k \in Keys, k[1] = "GNU.sparse."
      PROVE  k = GnuSparse("major") \/ k = GnuSparse("name")
    <2>1. ASSUME NEW n \in {"path", "linkpath", "size", "uid", "gid", "mtime",
                            "atime", "ctime", "mode", "uname", "gname"}
          PROVE  Key(n)[1] # "GNU.sparse."
        BY DEF Key
    <2>2. \A n : Schily(n)[1] # "GNU.sparse." /\ Libarchive(n)[1] # "GNU.sparse."
        BY DEF Schily, Libarchive
    <2>3. \E n \in {"major", "name"} : k = GnuSparse(n)
        BY <1>2, <2>1, <2>2 DEF Keys
    <2> QED
        BY <2>3
<1>3. GnuSparse("major")[1] = "GNU.sparse." /\ GnuSparse("name")[1] = "GNU.sparse."
    BY DEF GnuSparse
<1> QED
    BY <1>1, <1>2, <1>3

(* The entry that a member gets is of the types of the TOC and says what the last
   word on each of its fields is. *)
LEMMA MemberFacts ==
    ASSUME scenario \in Scenarios, GlobalsHeld, next \in 1 .. Len(stream),
           NEW m, m = MemberMetadata(EffectivePax(globalPax, E), E)
    PROVE  IsMember(m) /\ MemberTrue(m, next)
<1> DEFINE r == UpdatePaxRecords(globalPax, E.records)
           pax == EffectivePax(globalPax, E)
           h == E.header
           word(name) == LastWord(next, Key(name))
           sparse == h.realSize # None \/ \E g \in {"major", "name"} :
                         LastWord(next, GnuSparse(g)) # None
<1>1. \A key : Said(r, key) = LastWord(next, key)
    BY EffectiveRecords
<1>2. /\ DOMAIN r \subseteq Keys
      /\ \A key : IsOption(LastWord(next, key))
                  /\ \A v \in LastWord(next, key) : IsValue(v)
    <2> HIDE DEF r
    <2>1. /\ DOMAIN r \subseteq Keys
          /\ \A key : IsOption(Said(r, key)) /\ \A v \in Said(r, key) : IsValue(v)
        BY <1>1, EffectiveKeys
    <2> QED
        BY <1>1, <2>1
<1>3. IsHeader(h) /\ h = stream[next].header
    BY StreamTypes DEF E
<1>4. pax = PaxDataFromRecords(r)
    BY DEF EffectivePax
<1> HIDE DEF r
<1>5. /\ pax.uid = AndThen(word("uid"), ReadU64)
      /\ pax.gid = AndThen(word("gid"), ReadU64)
      /\ pax.size = AndThen(word("size"), ReadU64)
      /\ pax.mode = AndThen(word("mode"), ReadMode)
    <2> HIDE DEF pax
    <2> QED
        BY <1>1, <1>4, FieldsOf, ZenonT(60)
<1>6. /\ pax.mtime = AndThen(word("mtime"), ReadTime)
      /\ pax.atime = AndThen(word("atime"), ReadTime)
      /\ pax.ctime = AndThen(word("ctime"), ReadTime)
      /\ pax.uname = AndThen(word("uname"), ReadUtf8)
      /\ pax.gname = AndThen(word("gname"), ReadUtf8)
      /\ pax.path = word("path") /\ pax.linkpath = word("linkpath")
    <2> HIDE DEF pax
    <2> QED
        BY <1>1, <1>4, FieldsOf, ZenonT(60)
<1>7. pax.sparse = (\E k \in DOMAIN r : k[1] = "GNU.sparse.") /\ pax.xattrs = Xattrs(r)
    <2> HIDE DEF pax
    <2> QED
        BY <1>4, FieldsOf
<1> HIDE DEF pax
<1>8. IsSparse(pax, h) <=> sparse
    <2>1. pax.sparse <=> \E g \in {"major", "name"} : Said(r, GnuSparse(g)) # None
        BY <1>2, <1>7, SparseKeys
    <2> QED
        BY <1>1, <2>1 DEF IsSparse
<1>9. m = MemberMetadata(pax, E)
    BY DEF pax
<1>10. /\ m.type = IF sparse THEN "Other" ELSE ToEntryType(h.type)
       /\ m.size = UnwrapOr(h.realSize, IF sparse THEN EntrySize(E)
                                        ELSE UnwrapOr(pax.size, EntrySize(E)))
       /\ m.mode = UnwrapOr(pax.mode, h.mode)
       /\ m.uid = UnwrapOr(pax.uid, h.uid) /\ m.gid = UnwrapOr(pax.gid, h.gid)
    BY <1>8, <1>9 DEF MemberMetadata
<1>11. /\ m.path = UnwrapOr(pax.path, h.path)
       /\ m.mtime = UnwrapOr(pax.mtime, Seconds(h))
       /\ m.atime = pax.atime /\ m.ctime = pax.ctime
       /\ m.uname = OrElse(pax.uname, h.uname)
       /\ m.gname = OrElse(pax.gname, h.gname)
       /\ m.link = OrElse(pax.linkpath, h.link)
       /\ m.xattrs = pax.xattrs
    BY <1>9 DEF MemberMetadata, OrElse
<1> HIDE DEF word, sparse, h
<1>12. /\ OneOf(Numbers(next, Key("uid"), MaxU64, TRUE), h.uid, m.uid)
       /\ OneOf(Numbers(next, Key("gid"), MaxU64, TRUE), h.gid, m.gid)
       /\ OneOf(Numbers(next, Key("mode"), MaxU32, FALSE), h.mode, m.mode)
    BY <1>2, <1>5, <1>10, NumberCounts DEF Numbers, word
<1>13. ASSUME ~sparse
       PROVE  OneOf(Numbers(next, Key("size"), MaxU64, TRUE), h.size, m.size)
    <2>1. h.realSize = None
        BY <1>13 DEF sparse
    <2>2. m.size = UnwrapOr(pax.size, EntrySize(E))
        BY <1>10, <1>13, <2>1, Unwrapped
    <2>3. pax.size = None => EntrySize(E) = h.size
        BY <1>1, <1>5, OwnSize DEF word, r, h
    <2>4. m.size = UnwrapOr(pax.size, h.size)
        BY <2>2, <2>3 DEF UnwrapOr
    <2> QED
        BY <1>2, <1>5, <2>4, NumberCounts DEF Numbers, word
<1>14. m.path = UnwrapOr(word("path"), h.path) /\ m.link = OrElse(word("linkpath"), h.link)
    BY <1>6, <1>11
<1>15. /\ m.uname = OrElse(Texts(next, Key("uname")), h.uname)
       /\ m.gname = OrElse(Texts(next, Key("gname")), h.gname)
    BY <1>2, <1>6, <1>11, TextCounts DEF Texts, word
<1>16. ASSUME NEW name
       PROVE  LET words == Times(next, Key(name))
                  times == AndThen(word(name), ReadTime)
              IN /\ SayAll(words, times)
                 /\ \A t \in times : IsInstant(t)
                 /\ times = None \/ \E v \in words : \E t : times = Some(t) /\ Says(v, t)
    <2> DEFINE words == Times(next, Key(name))
               times == AndThen(word(name), ReadTime)
    <2>1. words = {v \in word(name) : v.as = "time" /\ v.whole <= MaxI64}
        BY DEF Times, word
    <2>2. IsOption(word(name)) /\ \A v \in word(name) : IsValue(v)
        BY <1>2 DEF word
    <2>3. times = AndThen(word(name), ReadTime)
        OBVIOUS
    <2> HIDE DEF words, times
    <2>4. /\ SayAll(words, times)
          /\ \A t \in times : IsInstant(t)
          /\ times = None \/ \E v \in words : \E t : times = Some(t) /\ Says(v, t)
        BY <2>1, <2>2, <2>3, TimeCounts
    <2> QED
        BY <2>4 DEF words, times
<1>17. /\ SayAll(Times(next, Key("atime")), m.atime)
       /\ SayAll(Times(next, Key("ctime")), m.ctime)
       /\ \A t \in m.atime \cup m.ctime : IsInstant(t)
    BY <1>6, <1>11, <1>16
<1>18. /\ IsInstant(Seconds(h)) /\ Seconds(h).ns = None
       /\ Seconds(h).sec \in {h.mtime, h.mtime - (MaxU64 + 1)}
    <2>1. h.mtime \in 0 .. MaxU64
        BY <1>3 DEF IsHeader
    <2>2. Seconds(h).sec \in -MaxI64 - 1 .. MaxI64
        BY <2>1, WidthsAssumption DEF Seconds
    <2>3. Seconds(h).ns = None
        BY DEF Seconds
    <2> QED
        BY <2>2, <2>3 DEF Seconds, IsInstant, None
<1>19. /\ IsInstant(m.mtime)
       /\ IF Times(next, Key("mtime")) = None
            THEN m.mtime.ns = None /\ m.mtime.sec \in {h.mtime, h.mtime - (MaxU64 + 1)}
            ELSE \E v \in Times(next, Key("mtime")) : Says(v, m.mtime)
    <2> DEFINE words == Times(next, Key("mtime"))
               times == pax.mtime
    <2>1. /\ SayAll(words, times)
          /\ \A t \in times : IsInstant(t)
          /\ times = None \/ \E v \in words : \E t : times = Some(t) /\ Says(v, t)
        BY <1>6, <1>16
    <2>2. times = None <=> words = None
        BY <2>1 DEF SayAll
    <2>3. m.mtime = UnwrapOr(times, Seconds(h))
        BY <1>11
    <2> HIDE DEF words, times
    <2>4. CASE times = None
        <3>1. m.mtime = Seconds(h)
            BY <2>3, <2>4, Unwrapped
        <3> QED
            BY <1>18, <2>2, <2>4, <3>1 DEF words
    <2>5. CASE times # None
        <3>0. PICK v \in words : \E t : times = Some(t) /\ Says(v, t)
            BY <2>1, <2>5
        <3>1. PICK t : times = Some(t) /\ Says(v, t)
            BY <3>0
        <3>2. m.mtime = t /\ t \in times
            BY <2>3, <3>1, Unwrapped DEF Some
        <3> QED
            BY <2>1, <2>2, <2>5, <3>1, <3>2 DEF words
    <2> QED
        BY <2>4, <2>5
<1>20. ASSUME NEW x \in XattrNames
       PROVE  LET ours == LastWord(next, Schily(x))
                  theirs == LastWord(next, Libarchive(x)) \ {Junk}
                  w == IF ours # None THEN ours ELSE theirs
              IN IF w = None THEN x \notin DOMAIN m.xattrs
                 ELSE x \in DOMAIN m.xattrs /\ m.xattrs[x] \in w
    <2> DEFINE attrs == m.xattrs
               ours == LastWord(next, Schily(x))
               theirs == LastWord(next, Libarchive(x)) \ {Junk}
               w == IF ours # None THEN ours ELSE theirs
    <2>1. ours = Said(r, Schily(x)) /\ theirs = Said(r, Libarchive(x)) \ {Junk}
        BY <1>1
    <2>2. attrs = Xattrs(r) /\ w = IF ours # None THEN ours ELSE theirs
        BY <1>7, <1>11
    <2> HIDE DEF attrs, ours, theirs, w
    <2>3. IF w = None THEN x \notin DOMAIN attrs ELSE x \in DOMAIN attrs /\ attrs[x] \in w
        BY <2>1, <2>2, XattrCounts
    <2> QED
        BY <2>3 DEF attrs, ours, theirs, w
<1>21. MemberTrue(m, next)
    BY <1>3, <1>10, <1>12, <1>13, <1>14, <1>15, <1>17, <1>19, <1>20
    DEF MemberTrue, word, sparse
<1>22. m.type \in EntryTypes
    BY <1>10 DEF ToEntryType, EntryTypes
<1>23. m.mode \in 0 .. MaxU32 /\ m.uid \in 0 .. MaxU64 /\ m.gid \in 0 .. MaxU64
    <2>1. h.mode \in 0 .. MaxU32 /\ h.uid \in 0 .. MaxU64 /\ h.gid \in 0 .. MaxU64
        BY <1>3 DEF IsHeader
    <2>2. ASSUME NEW name
          PROVE  /\ AndThen(word(name), ReadU64) \subseteq 0 .. MaxU64
                 /\ AndThen(word(name), ReadMode) \subseteq 0 .. MaxU32
                 /\ IsOption(AndThen(word(name), ReadU64))
                 /\ IsOption(AndThen(word(name), ReadMode))
        BY <1>2, NumberFits DEF word
    <2>3. pax.mode \subseteq 0 .. MaxU32 /\ pax.uid \subseteq 0 .. MaxU64
          /\ pax.gid \subseteq 0 .. MaxU64
        BY <1>5, <2>2
    <2>4. UnwrapOr(pax.mode, h.mode) \in 0 .. MaxU32
        BY <2>1, <2>3, UnwrapIn
    <2>5. UnwrapOr(pax.uid, h.uid) \in 0 .. MaxU64
        BY <2>1, <2>3, UnwrapIn
    <2>6. UnwrapOr(pax.gid, h.gid) \in 0 .. MaxU64
        BY <2>1, <2>3, UnwrapIn
    <2> QED
        BY <1>10, <2>4, <2>5, <2>6
<1>24. m.size \in 0 .. MaxU64
    <2>1. EntrySize(E) \in 0 .. MaxU64
        BY <1>1, <1>5, OwnSize DEF word, r, h
    <2>2. pax.size \subseteq 0 .. MaxU64
        BY <1>2, <1>5, NumberFits DEF word
    <2>3. UnwrapOr(pax.size, EntrySize(E)) \in 0 .. MaxU64
        BY <2>1, <2>2, UnwrapIn
    <2>4. h.realSize \subseteq 0 .. MaxU64
        BY <1>3 DEF IsHeader
    <2> DEFINE onDisk == IF sparse THEN EntrySize(E) ELSE UnwrapOr(pax.size, EntrySize(E))
    <2>5. onDisk \in 0 .. MaxU64 /\ m.size = UnwrapOr(h.realSize, onDisk)
        BY <1>10, <2>1, <2>3
    <2> HIDE DEF onDisk
    <2>6. UnwrapOr(h.realSize, onDisk) \in 0 .. MaxU64
        BY <2>4, <2>5, UnwrapIn
    <2> QED
        BY <2>5, <2>6
<1> QED
    BY <1>17, <1>19, <1>21, <1>22, <1>23, <1>24 DEF IsMember, Some

(* What the TOC says stays true as long as the stream is the same. *)
LEMMA TruthStays ==
    ASSUME scenario' = scenario, NEW m, NEW n
    PROVE  MemberTrue(m, n)' <=> MemberTrue(m, n)
<1>1. stream' = stream
    BY DEF stream
<1>2. \A k, key : LastWord(k, key)' = LastWord(k, key)
    BY <1>1 DEF LastWord, Word
<1>3. stream[n]' = stream[n]
    BY <1>1
<1> HIDE DEF stream
<1> QED
    BY <1>1, <1>2, <1>3, ZenonT(60) DEF MemberTrue, Numbers, Times, Texts

(* What the globals read so far say stays so. *)
LEMMA GlobalsStay ==
    ASSUME scenario' = scenario, NEW n,
           AreWordsOf(globalPax', GlobalsBefore(n)), next' = n
    PROVE  GlobalsHeld'
<1>1. stream' = stream
    BY DEF stream
<1>2. GlobalsBefore(next)' = GlobalsBefore(n)
    BY <1>1 DEF GlobalsBefore
<1>3. \A H, key : Word(H, key)' = Word(H, key)
    BY <1>1 DEF Word
<1> HIDE DEF GlobalsBefore
<1>4. \A key : Said(globalPax', key) = Word(GlobalsBefore(n), key)
    BY DEF AreWordsOf
<1>5. \A key : Word(GlobalsBefore(next), key)' = Word(GlobalsBefore(n), key)
    BY <1>2, <1>3
<1>6. IsMapping(globalPax')
    BY DEF AreWordsOf
<1> QED
    BY <1>4, <1>5, <1>6 DEF GlobalsHeld, AreWordsOf, IsMapping, Said

(* A sequence, whatever it holds, and what is appended to it. *)
IsSequence(s) == \E S : s \in Seq(S)
Extends(t, s, e) ==
    /\ IsSequence(t) /\ Len(t) = Len(s) + 1
    /\ Len(s) \in Nat /\ DOMAIN s = 1 .. Len(s) /\ DOMAIN t = 1 .. Len(s) + 1
    /\ t[Len(s) + 1] = e /\ \A i \in 1 .. Len(s) : t[i] = s[i]

LEMMA Appended ==
    ASSUME NEW s, IsSequence(s), NEW e, NEW t, t = Append(s, e)
    PROVE  Extends(t, s, e)
<1>1. PICK V : s \in Seq(V)
    BY DEF IsSequence
<1> DEFINE S == V \cup {e}
<1>2. s \in Seq(S) /\ e \in S
    BY <1>1
<1> HIDE DEF S
<1>3. t \in Seq(S) /\ Len(t) = Len(s) + 1
    BY <1>2
<1>4. /\ Len(s) \in Nat /\ DOMAIN s = 1 .. Len(s) /\ DOMAIN t = 1 .. Len(s) + 1
      /\ t[Len(s) + 1] = e /\ \A i \in 1 .. Len(s) : t[i] = s[i]
    BY <1>2
<1> QED
    BY <1>3, <1>4 DEF IsSequence, Extends

(* The listing so far has the members looked at that the filter lets through, in
   their order, each with its time. *)
ListedSoFar ==
    /\ IsSequence(listed)
    /\ \A l \in DOMAIN listed :
          /\ listed[l].member \in 1 .. next - 1
          /\ listed[l].time =
                FormatMtime(toc[listed[l].member].mtime.sec, scenario.offset)
    /\ \A i, j \in DOMAIN listed : i < j => listed[i].member < listed[j].member
    /\ \A i \in 1 .. next - 1 :
          FilterMatches(scenario.patterns, toc[i].path.name)
             <=> \E l \in DOMAIN listed : listed[l].member = i

TocHolds ==
    /\ IsSequence(toc) /\ IsSequence(from)
    /\ Len(from) = Len(toc)
    /\ \A i \in DOMAIN toc : IsMember(toc[i]) /\ MemberTrue(toc[i], from[i])

MetaInv ==
    /\ scenario \in Scenarios
    /\ phase \in {"wrap", "list", "done", "refused", "panicked"}
    /\ next \in 1 .. Len(stream) + 1
    /\ DOMAIN globalPax \subseteq Keys
    /\ TocHolds
    /\ phase = "wrap" => GlobalsHeld /\ Len(toc) < next /\ listed = <<>>
    /\ phase \in {"list", "done"} =>
          Len(toc) <= Len(stream) /\ next \in 1 .. Len(toc) + 1 /\ ListedSoFar
    /\ phase = "done" => next = Len(toc) + 1
    /\ phase = "panicked" => /\ next \in DOMAIN toc
                             /\ YearOverflows(toc[next].mtime.sec, scenario.offset)

LEMMA MetaInit == Init => MetaInv
<1> SUFFICES ASSUME Init PROVE MetaInv
    OBVIOUS
<1>1. IsSequence(<<>>) /\ Len(<<>>) = 0 /\ DOMAIN <<>> = {}
    BY DEF IsSequence
<1>2. scenario \in Scenarios /\ Len(stream) \in Nat /\ next \in 1 .. Len(stream) + 1
    BY StreamTypes DEF Init
<1>3. GlobalsHeld
    <2>1. GlobalsBefore(next) = {}
        BY DEF Init, GlobalsBefore
    <2>2. \A key : Word({}, key) = None
        BY DEF Word
    <2>3. IsMapping(globalPax) /\ \A key : Said(globalPax, key) = None
        BY <1>1 DEF IsMapping, Said, Init
    <2> QED
        BY <2>1, <2>2, <2>3 DEF GlobalsHeld, AreWordsOf
<1>4. TocHolds
    BY <1>1 DEF TocHolds, Init
<1> QED
    BY <1>1, <1>2, <1>3, <1>4 DEF MetaInv, Init

LEMMA GlobalStep ==
    ASSUME MetaInv, ParseGlobal
    PROVE  MetaInv'
<1> DEFINE r == UpdatePaxRecords(globalPax, E.records)
<1>1. /\ scenario \in Scenarios /\ GlobalsHeld /\ TocHolds /\ phase = "wrap"
      /\ Len(stream) \in Nat /\ next \in 1 .. Len(stream) /\ Len(toc) < next
      /\ scenario' = scenario /\ stream' = stream /\ phase' = phase /\ toc' = toc
      /\ from' = from /\ listed' = listed /\ listed = <<>> /\ next' = next + 1
      /\ globalPax' = r /\ E.global
    BY StreamTypes DEF MetaInv, ParseGlobal, Reading, stream
<1>2. /\ AreWordsOf(r, GlobalsBefore(next) \cup {next})
      /\ \A key : Said(r, key) = LastWord(next, key)
    BY <1>1, EffectiveRecords
<1> HIDE DEF r
<1>3. DOMAIN r \subseteq Keys
    BY <1>1, <1>2, EffectiveKeys
<1>4. GlobalsBefore(next) \cup {next} = GlobalsBefore(next + 1)
    BY <1>1 DEF GlobalsBefore, E
<1>5. GlobalsHeld'
    <2>1. AreWordsOf(globalPax', GlobalsBefore(next + 1))
        BY <1>1, <1>2, <1>4
    <2> QED
        BY <1>1, <2>1, GlobalsStay
<1>6. TocHolds'
    BY <1>1, TruthStays DEF TocHolds, IsMember, IsInstant
<1>7. Len(toc)' < next' /\ next' \in 1 .. Len(stream)' + 1
    <2>1. Len(toc) \in Nat
        BY <1>1 DEF TocHolds, IsSequence
    <2> QED
        BY <1>1, <2>1
<1> QED
    BY <1>1, <1>3, <1>5, <1>6, <1>7 DEF MetaInv

LEMMA MemberStep ==
    ASSUME MetaInv, ParseMember
    PROVE  MetaInv'
<1> DEFINE m == MemberMetadata(EffectivePax(globalPax, E), E)
<1>1. /\ scenario \in Scenarios /\ GlobalsHeld /\ TocHolds /\ phase = "wrap"
      /\ Len(stream) \in Nat /\ next \in 1 .. Len(stream) /\ Len(toc) < next
      /\ scenario' = scenario /\ stream' = stream /\ phase' = phase
      /\ toc' = Append(toc, m) /\ from' = Append(from, next)
      /\ listed' = listed /\ listed = <<>> /\ next' = next + 1
      /\ globalPax' = globalPax /\ ~E.global /\ DOMAIN globalPax \subseteq Keys
    BY StreamTypes DEF MetaInv, ParseMember, Reading, stream
<1>2. IsMember(m) /\ MemberTrue(m, next)
    BY <1>1, MemberFacts
<1> HIDE DEF m
<1>3. GlobalsBefore(next) = GlobalsBefore(next + 1)
    BY <1>1 DEF GlobalsBefore, E
<1>4. GlobalsHeld'
    <2>1. AreWordsOf(globalPax', GlobalsBefore(next + 1))
        BY <1>1, <1>3 DEF GlobalsHeld
    <2> QED
        BY <1>1, <2>1, GlobalsStay
<1>5. /\ IsSequence(toc) /\ IsSequence(from) /\ Len(from) = Len(toc)
      /\ \A i \in DOMAIN toc : IsMember(toc[i]) /\ MemberTrue(toc[i], from[i])
    BY <1>1 DEF TocHolds
<1>6. Extends(toc', toc, m) /\ Extends(from', from, next)
    <2> DEFINE after == toc'
               afterFrom == from'
    <2>1. after = Append(toc, m) /\ afterFrom = Append(from, next)
        BY <1>1
    <2> HIDE DEF after, afterFrom
    <2>2. Extends(after, toc, m)
        BY <1>5, <2>1, Appended
    <2>3. Extends(afterFrom, from, next)
        BY <1>5, <2>1, Appended
    <2> QED
        BY <2>2, <2>3 DEF after, afterFrom
<1>7. /\ IsSequence(toc') /\ Len(toc') = Len(toc) + 1 /\ Len(toc) \in Nat
      /\ DOMAIN toc = 1 .. Len(toc) /\ DOMAIN toc' = 1 .. Len(toc) + 1
      /\ toc'[Len(toc) + 1] = m /\ \A i \in 1 .. Len(toc) : toc'[i] = toc[i]
      /\ IsSequence(from') /\ Len(from') = Len(toc) + 1
      /\ from'[Len(toc) + 1] = next /\ \A i \in 1 .. Len(toc) : from'[i] = from[i]
    BY <1>5, <1>6 DEF Extends
<1>8. ASSUME NEW i \in DOMAIN toc'
      PROVE  IsMember(toc'[i]) /\ MemberTrue(toc'[i], from'[i])
    BY <1>2, <1>5, <1>7
<1>9. TocHolds'
    BY <1>1, <1>7, <1>8, TruthStays DEF TocHolds, IsMember, IsInstant
<1>10. Len(toc)' < next' /\ next' \in 1 .. Len(stream)' + 1
    BY <1>1, <1>7
<1> QED
    BY <1>1, <1>4, <1>9, <1>10 DEF MetaInv

(* In these steps the TOC stays as it is. *)
LEMMA TocStays ==
    ASSUME TocHolds, UNCHANGED <<scenario, toc, from>>
    PROVE  TocHolds'
    BY TruthStays DEF TocHolds, IsMember, IsInstant

LEMMA RefuseStep ==
    ASSUME MetaInv, RefuseMember
    PROVE  MetaInv'
<1>1. TocHolds'
    BY TocStays DEF MetaInv, RefuseMember
<1>2. stream' = stream
    BY DEF RefuseMember, stream
<1> QED
    BY <1>1, <1>2 DEF MetaInv, RefuseMember

LEMMA EndStep ==
    ASSUME MetaInv, ParseEnd
    PROVE  MetaInv'
<1>1. /\ scenario \in Scenarios /\ TocHolds /\ next \in 1 .. Len(stream) + 1
      /\ Len(toc) < next /\ listed = <<>> /\ DOMAIN globalPax \subseteq Keys
      /\ UNCHANGED <<scenario, globalPax, toc, from, listed>>
      /\ phase' = "list" /\ next' = 1
    BY DEF MetaInv, ParseEnd
<1>2. Len(stream) \in Nat /\ stream' = stream
    BY <1>1, StreamTypes DEF stream
<1>3. TocHolds' /\ Len(toc) \in Nat
    BY <1>1, TocStays DEF TocHolds, IsSequence
<1>4. ListedSoFar'
    <2>1. IsSequence(<<>>) /\ DOMAIN <<>> = {}
        BY DEF IsSequence
    <2> QED
        BY <1>1, <2>1 DEF ListedSoFar
<1> QED
    BY <1>1, <1>2, <1>3, <1>4 DEF MetaInv

LEMMA ListStep ==
    ASSUME MetaInv, List
    PROVE  MetaInv'
<1> DEFINE asked == FilterMatches(scenario.patterns, toc[next].path.name)
           line == [member |-> next,
                    time |-> FormatMtime(toc[next].mtime.sec, scenario.offset)]
<1>1. /\ scenario \in Scenarios /\ TocHolds /\ phase = "list" /\ ListedSoFar
      /\ Len(toc) <= Len(stream) /\ next <= Len(toc) /\ DOMAIN globalPax \subseteq Keys
      /\ next \in 1 .. Len(toc) + 1 /\ next \in 1 .. Len(stream) + 1
      /\ UNCHANGED <<scenario, phase, globalPax, toc, from>> /\ next' = next + 1
      /\ listed' = IF asked THEN Append(listed, line) ELSE listed
    BY DEF MetaInv, List
<1>2. Len(stream) \in Nat /\ stream' = stream
    BY <1>1, StreamTypes DEF stream
<1>3. TocHolds' /\ Len(toc) \in Nat /\ next \in Nat
    BY <1>1, TocStays DEF TocHolds, IsSequence
<1>4. /\ line.member = next
      /\ line.time = FormatMtime(toc[next].mtime.sec, scenario.offset)
    OBVIOUS
<1> HIDE DEF line
<1>5. CASE asked
    <2>1. Extends(listed', listed, line)
        <3> DEFINE after == listed'
        <3>1. after = Append(listed, line) /\ IsSequence(listed)
            BY <1>1, <1>5 DEF ListedSoFar
        <3> HIDE DEF after, asked
        <3>2. Extends(after, listed, line)
            BY <3>1, Appended
        <3> QED
            BY <3>2 DEF after
    <2> DEFINE n == Len(listed)
    <2>2. /\ IsSequence(listed') /\ n \in Nat /\ DOMAIN listed = 1 .. n
          /\ DOMAIN listed' = 1 .. n + 1 /\ listed'[n + 1] = line
          /\ \A l \in 1 .. n : listed'[l] = listed[l]
        BY <2>1 DEF Extends
    <2> HIDE DEF n
    <2>3. \A l \in 1 .. n : listed[l].member \in 1 .. next - 1
        BY <1>1, <2>2 DEF ListedSoFar
    <2>4. ASSUME NEW l \in DOMAIN listed'
          PROVE  /\ listed'[l].member \in 1 .. next
                 /\ listed'[l].time =
                      FormatMtime(toc[listed'[l].member].mtime.sec, scenario.offset)
        <3>1. CASE l \in 1 .. n
            BY <1>1, <1>3, <2>2, <2>3, <3>1 DEF ListedSoFar
        <3>2. CASE l = n + 1
            BY <1>3, <1>1, <1>4, <2>2, <3>2
        <3> QED
            BY <2>2, <3>1, <3>2
    <2>5. ASSUME NEW i \in DOMAIN listed', NEW j \in DOMAIN listed', i < j
          PROVE  listed'[i].member < listed'[j].member
        <3>1. CASE j \in 1 .. n
            BY <1>1, <2>2, <2>5, <3>1 DEF ListedSoFar
        <3>2. CASE j = n + 1
            BY <1>3, <1>4, <2>2, <2>3, <2>5, <3>2
        <3> QED
            BY <2>2, <3>1, <3>2
    <2>6. ASSUME NEW i \in 1 .. next
          PROVE  FilterMatches(scenario.patterns, toc[i].path.name)
                    <=> \E l \in DOMAIN listed' : listed'[l].member = i
        <3>1. CASE i = next
            <4>1. n + 1 \in DOMAIN listed' /\ listed'[n + 1].member = i
                BY <1>4, <2>2, <3>1
            <4> QED
                BY <1>5, <3>1, <4>1
        <3>2. CASE i \in 1 .. next - 1
            <4>1. listed'[n + 1].member # i
                BY <1>3, <1>4, <2>2, <3>2
            <4>2. (\E l \in DOMAIN listed' : listed'[l].member = i)
                    <=> \E l \in DOMAIN listed : listed[l].member = i
                BY <2>2, <4>1
            <4> QED
                BY <1>1, <3>2, <4>2 DEF ListedSoFar
        <3> QED
            BY <1>3, <3>1, <3>2
    <2> HIDE DEF asked
    <2>7. IsSequence(listed')
        BY <2>2
    <2>8. scenario' = scenario /\ toc' = toc /\ next' - 1 = next
        BY <1>1, <1>3
    <2>9. ListedSoFar'
        BY <2>4, <2>5, <2>6, <2>7, <2>8 DEF ListedSoFar
    <2> QED
        BY <1>1, <1>2, <1>3, <2>9 DEF MetaInv
<1>6. CASE ~asked
    <2>1. listed' = listed
        BY <1>1, <1>6
    <2>2. ASSUME NEW i \in 1 .. next
          PROVE  FilterMatches(scenario.patterns, toc[i].path.name)
                    <=> \E l \in DOMAIN listed : listed[l].member = i
        <3>1. CASE i = next
            <4>1. \A l \in DOMAIN listed : listed[l].member \in 1 .. next - 1
                BY <1>1 DEF ListedSoFar
            <4> QED
                BY <1>3, <1>6, <3>1, <4>1
        <3>2. CASE i \in 1 .. next - 1
            BY <1>1, <3>2 DEF ListedSoFar
        <3> QED
            BY <1>3, <3>1, <3>2
    <2>3. \A l \in DOMAIN listed : listed[l].member \in 1 .. next
        BY <1>1, <1>3 DEF ListedSoFar
    <2> HIDE DEF asked
    <2>4. ListedSoFar'
        BY <1>1, <1>3, <2>1, <2>2, <2>3 DEF ListedSoFar
    <2> QED
        BY <1>1, <1>2, <1>3, <2>4 DEF MetaInv
<1> QED
    BY <1>5, <1>6

LEMMA PanicStep ==
    ASSUME MetaInv, ListPanics
    PROVE  MetaInv'
<1>1. /\ UNCHANGED <<scenario, next, globalPax, toc, from, listed>>
      /\ phase = "list" /\ phase' = "panicked" /\ next <= Len(toc)
      /\ YearOverflows(toc[next].mtime.sec, scenario.offset)
    BY DEF ListPanics
<1>2. TocHolds' /\ stream' = stream
    BY <1>1, TocStays DEF MetaInv, stream
<1>3. next \in DOMAIN toc
    <2>1. Len(toc) \in Nat /\ DOMAIN toc = 1 .. Len(toc) /\ next \in 1 .. Len(toc) + 1
        BY <1>1 DEF MetaInv, TocHolds, IsSequence
    <2> QED
        BY <1>1, <2>1
<1>4. YearOverflows(toc[next].mtime.sec, scenario.offset)'
    BY <1>1 DEF YearOverflows
<1> QED
    BY <1>1, <1>2, <1>3, <1>4 DEF MetaInv

LEMMA MetaStep == MetaInv /\ [Next]_vars => MetaInv'
<1> SUFFICES ASSUME MetaInv, [Next]_vars PROVE MetaInv'
    OBVIOUS
<1>1. CASE ParseGlobal
    BY <1>1, GlobalStep
<1>2. CASE ParseMember
    BY <1>2, MemberStep
<1>3. CASE RefuseMember
    BY <1>3, RefuseStep
<1>4. CASE ParseEnd
    BY <1>4, EndStep
<1>5. CASE List
    BY <1>5, ListStep
<1>6. CASE ListEnd
    <2>1. TocHolds' /\ stream' = stream
        BY <1>6, TocStays DEF MetaInv, ListEnd, stream
    <2>2. ListedSoFar'
        BY <1>6 DEF MetaInv, ListEnd, ListedSoFar
    <2>3. next = Len(toc) + 1
        <3>1. Len(toc) \in Nat
            BY DEF MetaInv, TocHolds, IsSequence
        <3> QED
            BY <1>6, <3>1 DEF MetaInv, ListEnd
    <2> QED
        BY <1>6, <2>1, <2>2, <2>3 DEF MetaInv, ListEnd
<1>7. CASE ListPanics
    BY <1>7, PanicStep
<1>8. CASE UNCHANGED vars
    <2>1. TocHolds' /\ stream' = stream /\ UNCHANGED vars
        BY <1>8, TocStays DEF MetaInv, vars, stream
    <2>2. ListedSoFar' <=> ListedSoFar
        BY <2>1 DEF ListedSoFar, vars
    <2>3. GlobalsHeld => GlobalsHeld'
        <3>1. GlobalsHeld => AreWordsOf(globalPax', GlobalsBefore(next))
            BY <2>1 DEF vars, GlobalsHeld
        <3> QED
            BY <2>1, <3>1, GlobalsStay DEF vars
    <2>4. /\ YearOverflows(toc[next].mtime.sec, scenario.offset)'
                <=> YearOverflows(toc[next].mtime.sec, scenario.offset)
          /\ (next \in DOMAIN toc)' <=> next \in DOMAIN toc
        BY <2>1 DEF YearOverflows, vars
    <2> QED
        BY <2>1, <2>2, <2>3, <2>4 DEF MetaInv, vars
<1> QED
    BY <1>1, <1>2, <1>3, <1>4, <1>5, <1>6, <1>8, <1>7 DEF Next, Ended

(* The inductive invariant of the listing holds in every reachable state. *)
THEOREM MetaInvariant == Spec => []MetaInv
    BY MetaInit, MetaStep, PTL DEF Spec

(* MetadataTypeOK: the entries of the TOC are of their types, whatever the records
   of the stream say: no number leaves its width and no fraction of a second
   reaches a whole one. *)
THEOREM MetadataTypes == Spec => []MetadataTypeOK
<1>1. MetaInv => MetadataTypeOK
    BY DEF MetaInv, MetadataTypeOK, TocHolds
<1> QED
    BY <1>1, MetaInvariant, PTL

(* LastWordCounts: what the TOC says of a member is the last word of the records
   that hold for it, however many headers say how much about it, and however many
   digits a time has. *)
THEOREM LastWordTrue == Spec => []LastWordCounts
<1>1. MetaInv => LastWordCounts
    BY DEF MetaInv, LastWordCounts, TocHolds
<1> QED
    BY <1>1, MetaInvariant, PTL
-----------------------------------------------------------------------------

(* The path filter. *)

(* What is left of a path that has "." and empty components only before and behind
   its names is its names. *)
Dot == "."
Blank == ""
IsFirst(path, i) ==
    /\ i = Len(path) \/ path[i] # Dot
    /\ \A j \in 1 .. i - 1 : path[j] = Dot
IsLast(path, first, i) ==
    /\ i = first \/ path[i] # Blank
    /\ \A j \in i + 1 .. Len(path) : path[j] = Blank

LEMMA TrimmedIsNames ==
    ASSUME NEW path, WellSpelt(path)
    PROVE  Trimmed(path) = Names(path)
<1> DEFINE n == Len(path)
           N == Named(path)
           first == CHOOSE i \in DOMAIN path : IsFirst(path, i)
           last == CHOOSE i \in first .. Len(path) : IsLast(path, first, i)
<1>1. n \in Nat \ {0} /\ DOMAIN path = 1 .. n /\ path \in Seq(Range(path))
    <2>1. path \in Seq(Range(path)) /\ path # <<>>
        BY DEF WellSpelt
    <2> HIDE DEF N, first, last
    <2> QED
        BY <2>1
<1>2. N = {i \in DOMAIN path : path[i] \notin {Blank, Dot}}
    BY Zenon DEF Named, Blank, Dot
<1>3. \A i \in DOMAIN path \ N :
          IF \A j \in N : i < j
            THEN path[i] = (IF N = {} /\ i = n THEN Blank ELSE Dot)
            ELSE (\A j \in N : j < i) => path[i] = Blank
    BY Zenon DEF WellSpelt, Blank, Dot
<1>4. Trimmed(path) = SubSeq(path, first, last)
    BY Zenon DEF Trimmed, IsFirst, IsLast, Blank, Dot
<1>5. Names(path) = IF N = {} THEN <<Blank>> ELSE SubSeq(path, Min(N), Max(N))
    BY Zenon DEF Names, Blank
<1>6. /\ \A i : IsFirst(path, i) <=> /\ i = n \/ path[i] # Dot
                                    /\ \A j \in 1 .. i - 1 : path[j] = Dot
      /\ \A f, i : IsLast(path, f, i) <=> /\ i = f \/ path[i] # Blank
                                          /\ \A j \in i + 1 .. n : path[j] = Blank
    BY DEF IsFirst, IsLast
<1>7. /\ first = CHOOSE i \in DOMAIN path : IsFirst(path, i)
      /\ last = CHOOSE i \in first .. n : IsLast(path, first, i)
    OBVIOUS
<1> HIDE DEF first, last, N
<1>8. CASE N = {}
    <2>1. \A i \in 1 .. n : path[i] = IF i = n THEN Blank ELSE Dot
        BY <1>1, <1>3, <1>8
    <2>2. SubSeq(path, n, n) = <<Blank>>
        <3> DEFINE S == Range(path)
                   q == SubSeq(path, n, n)
        <3>1. path \in Seq(S) /\ n = Len(path)
            BY <1>1
        <3> HIDE DEF S, n
        <3>2. n \in 1 .. n /\ path[n] = Blank
            BY <1>1, <2>1
        <3>3. q \in Seq(S) /\ Len(q) = 1 /\ q[1] = Blank
            BY <3>1, <3>2
        <3> HIDE DEF q
        <3>4. q = <<Blank>>
            BY <3>3
        <3> QED
            BY <3>4 DEF q
    <2> HIDE DEF n
    <2>3. IsFirst(path, n) /\ \A i \in 1 .. n : IsFirst(path, i) => i = n
        BY <1>1, <1>6, <2>1
    <2>4. first = n
        BY <1>1, <1>7, <2>3
    <2>5. IsLast(path, n, n) /\ n \in n .. n /\ \A i \in n .. n : i = n
        BY <1>1, <1>6
    <2>6. last = n
        BY <1>7, <2>4, <2>5
    <2> QED
        BY <1>4, <1>5, <1>8, <2>2, <2>4, <2>6
<1>9. CASE N # {}
    <2> DEFINE a == Min(N)
               b == Max(N)
    <2> HIDE DEF n
    <2>1. N \in SUBSET (0 .. n) /\ N \in SUBSET Nat /\ n \in Nat
        BY <1>1, <1>2
    <2>2. a \in N /\ \A i \in N : a <= i
        BY <1>9, <2>1, LeastOf
    <2>3. b \in N /\ \A i \in N : i <= b
        BY <1>9, <2>1, GreatestOf
    <2> HIDE DEF a, b
    <2>4. /\ a \in 1 .. n /\ b \in 1 .. n /\ a <= b
          /\ path[a] # Dot /\ path[b] # Blank
        BY <1>1, <1>2, <2>2, <2>3
    <2>5. ASSUME NEW i \in 1 .. n, i < a PROVE path[i] = Dot
        <3>1. i \notin N /\ \A j \in N : i < j
            BY <1>1, <2>1, <2>2, <2>4, <2>5
        <3> QED
            BY <1>1, <1>3, <1>9, <3>1
    <2>6. ASSUME NEW i \in 1 .. n, b < i PROVE path[i] = Blank
        <3>1. i \notin N /\ (\A j \in N : j < i) /\ ~(i < b)
            BY <1>1, <2>1, <2>3, <2>4, <2>6
        <3> QED
            BY <1>1, <1>3, <2>3, <3>1
    <2>7. IsFirst(path, a)
        BY <1>1, <1>6, <2>4, <2>5
    <2>8. ASSUME NEW i \in 1 .. n, IsFirst(path, i) PROVE i = a
        <3>1. CASE i < a
            <4>1. path[i] = Dot /\ i # n
                BY <1>1, <2>4, <2>5, <3>1
            <4> QED
                BY <1>6, <2>8, <4>1
        <3>2. CASE a < i
            <4>1. a \in 1 .. i - 1
                BY <1>1, <2>4, <3>2
            <4> QED
                BY <1>6, <2>4, <2>8, <4>1
        <3> QED
            BY <1>1, <2>4, <3>1, <3>2
    <2>9. first = a
        BY <1>1, <1>7, <2>4, <2>7, <2>8
    <2>10. IsLast(path, a, b) /\ b \in a .. n
        BY <1>1, <1>6, <2>4, <2>6
    <2>11. ASSUME NEW i \in a .. n, IsLast(path, a, i) PROVE i = b
        <3>1. i \in 1 .. n
            BY <1>1, <2>4
        <3>2. CASE i < b
            <4>1. b \in i + 1 .. n
                BY <1>1, <2>4, <3>1, <3>2
            <4> QED
                BY <1>6, <2>4, <2>11, <4>1
        <3>3. CASE b < i
            <4>1. path[i] = Blank /\ i # a
                BY <1>1, <2>4, <2>6, <3>1, <3>3
            <4> QED
                BY <1>6, <2>11, <4>1
        <3> QED
            BY <1>1, <2>4, <3>1, <3>2, <3>3
    <2>12. last = b
        BY <1>7, <2>9, <2>10, <2>11
    <2> QED
        BY <1>4, <1>5, <1>9, <2>9, <2>12 DEF a, b
<1> QED
    BY <1>8, <1>9

(* The filter lets through what is asked for, however it is spelt. *)
LEMMA FilterIsWanted ==
    ASSUME NEW patterns, NEW path, WellSpelt(path), \A p \in patterns : WellSpelt(p)
    PROVE  FilterMatches(patterns, path) <=>
              \/ patterns = {}
              \/ \E p \in patterns : \/ IsPrefix(Names(p), Names(path))
                                     \/ GlobMatches(Names(p), Names(path))
    BY TrimmedIsNames DEF FilterMatches
-----------------------------------------------------------------------------

(* The calendar. *)

(* A turn of the walk through the years, or the months. *)
Turn(lengths, at) ==
    IF at[2] < lengths[at[1]] THEN at ELSE <<at[1] + 1, at[2] - lengths[at[1]]>>

(* Where the walk is after so many turns: a year (or month) it can be in, what is
   left of the days, and a turn that takes nothing only where they are left in it. *)
IsAt(at, lengths, before, first, days, n) ==
    /\ at = <<at[1], at[2]>> /\ at[1] \in first .. first + n /\ at[2] \in Nat
    /\ days = at[2] + before[at[1]] - before[first]
    /\ at[2] < lengths[at[1]] \/ at[1] = first + n

LEMMA TurnTo ==
    ASSUME NEW first \in Int, NEW turns \in Nat, NEW days \in Nat, NEW lengths,
           NEW before,
           \A u \in first .. first + turns : before[u] \in Int,
           \A u \in first .. first + turns - 1 :
              lengths[u] \in Nat /\ before[u + 1] = before[u] + lengths[u],
           NEW n \in 0 .. turns - 1, NEW at, IsAt(at, lengths, before, first, days, n)
    PROVE  IsAt(Turn(lengths, at), lengths, before, first, days, n + 1)
<1> DEFINE u == at[1]
           d == at[2]
<1>1. /\ at = <<u, d>> /\ u \in first .. first + n /\ d \in Nat
      /\ days = d + before[u] - before[first]
      /\ d < lengths[u] \/ u = first + n
    BY DEF IsAt
<1>2. u \in first .. first + turns - 1 /\ u + 1 \in first .. first + turns
    BY <1>1
<1>3. /\ lengths[u] \in Nat /\ before[u + 1] = before[u] + lengths[u]
      /\ before[u] \in Int /\ before[first] \in Int /\ before[u + 1] \in Int
    <2>1. u \in first .. first + turns /\ first \in first .. first + turns
        BY <1>2
    <2> QED
        BY <1>2, <2>1
<1>4. Turn(lengths, at) = IF d < lengths[u] THEN at ELSE <<u + 1, d - lengths[u]>>
    BY DEF Turn
<1>5. CASE d < lengths[u]
    <2>1. Turn(lengths, at) = at /\ u \in first .. first + (n + 1)
        BY <1>1, <1>4, <1>5
    <2> QED
        BY <1>1, <1>5, <2>1 DEF IsAt
<1>6. CASE ~(d < lengths[u])
    <2> DEFINE v == u + 1
               e == d - lengths[u]
               gone == <<v, e>>
    <2>1. v = first + (n + 1) /\ v \in first .. first + (n + 1)
        BY <1>1, <1>6
    <2>2. e \in Nat /\ days = e + before[v] - before[first]
        BY <1>1, <1>3, <1>6
    <2>3. Turn(lengths, at) = gone /\ gone[1] = v /\ gone[2] = e /\ gone = <<v, e>>
        BY <1>4, <1>6
    <2> HIDE DEF v, e, gone
    <2>4. IsAt(gone, lengths, before, first, days, n + 1)
        BY <2>1, <2>2, <2>3 DEF IsAt
    <2> QED
        BY <2>3, <2>4
<1> QED
    BY <1>5, <1>6

LEMMA WalkTo ==
    ASSUME NEW first \in Int, NEW turns \in Nat, NEW days \in Nat, NEW lengths,
           NEW before,
           \A u \in first .. first + turns : before[u] \in Int,
           \A u \in first .. first + turns - 1 :
              lengths[u] \in Nat /\ before[u + 1] = before[u] + lengths[u]
    PROVE  IsAt(Walk(lengths, first, days, turns), lengths, before, first, days, turns)
<1> DEFINE known == first .. first + turns - 1
           L == [u \in Int |-> IF u \in known THEN lengths[u] ELSE 0]
           S == Int \X Int
           R == [i \in 1 .. turns |-> [at \in S |-> Turn(L, at)]]
           At(g, i) == IsAt(g[i], lengths, before, first, days, i)
           IsWalk(g) == g = [n \in 0 .. turns |-> IF n = 0 THEN <<first, days>>
                                ELSE Turn(lengths, g[n - 1])]
           after == CHOOSE g : IsWalk(g)
<1>1. <<first, days>> \in S /\ R \in [1 .. turns -> [S -> S]]
    <2>1. ASSUME NEW at \in S PROVE Turn(L, at) \in S
        <3>1. at[1] \in Int /\ at[2] \in Int /\ L[at[1]] \in Int
            OBVIOUS
        <3> HIDE DEF L
        <3> QED
            BY <3>1 DEF Turn
    <2> HIDE DEF L, S
    <2>2. [at \in S |-> Turn(L, at)] \in [S -> S]
        BY <2>1
    <2>3. <<first, days>> \in S
        BY DEF S
    <2> QED
        BY <2>2, <2>3
<1>2. PICK g \in [0 .. turns -> S] : Follows(g, <<first, days>>, R, turns)
    <2> HIDE DEF S, R
    <2> QED
        BY <1>1, Recursion
<1>3. g[0] = <<first, days>> /\ \A i \in 1 .. turns : g[i] = Turn(L, g[i - 1])
    <2>1. \A i \in 1 .. turns : g[i - 1] \in S
        <3>1. \A i \in 1 .. turns : i - 1 \in 0 .. turns
            OBVIOUS
        <3> HIDE DEF S
        <3> QED
            BY <3>1
    <2> HIDE DEF S, L
    <2> QED
        BY <1>2, <2>1 DEF Follows
<1> HIDE DEF R, S
<1>4. At(g, 0)
    <2> DEFINE at == g[0]
    <2>1. at = <<first, days>> /\ at[1] = first /\ at[2] = days
        BY <1>3
    <2>2. before[first] \in Int /\ first \in first .. first + 0 /\ first = first + 0
        <3>1. first \in first .. first + turns
            OBVIOUS
        <3> QED
            BY <3>1
    <2> HIDE DEF at
    <2>3. IsAt(at, lengths, before, first, days, 0)
        BY <2>1, <2>2 DEF IsAt
    <2> QED
        BY <2>3 DEF at
<1>5. ASSUME NEW i \in 1 .. turns, At(g, i - 1)
      PROVE  At(g, i) /\ g[i] = Turn(lengths, g[i - 1])
    <2> DEFINE at == g[i - 1]
               n == i - 1
    <2>1. at[1] \in first .. first + n /\ n \in 0 .. turns - 1
        BY <1>5 DEF IsAt
    <2>2. at[1] \in known /\ at[1] \in Int
        BY <2>1
    <2>3. L[at[1]] = lengths[at[1]]
        BY <2>2
    <2>4. g[i] = Turn(L, at)
        BY <1>3
    <2>5. g[i] = Turn(lengths, at)
        BY <2>3, <2>4 DEF Turn
    <2>6. IsAt(at, lengths, before, first, days, n)
        BY <1>5
    <2>7. n + 1 = i
        OBVIOUS
    <2> HIDE DEF at, n
    <2>8. IsAt(Turn(lengths, at), lengths, before, first, days, n + 1)
        BY <2>1, <2>6, TurnTo
    <2> QED
        BY <2>5, <2>7, <2>8 DEF at
<1>6. \A i \in 0 .. turns : At(g, i)
    <2> DEFINE T == {i \in 0 .. turns : At(g, i)}
    <2> HIDE DEF At
    <2>1. 0 \in T /\ \A i \in 1 .. turns : i - 1 \in T => i \in T
        BY <1>4, <1>5
    <2> HIDE DEF T
    <2>2. 0 .. turns \subseteq T
        BY <2>1, UpTo
    <2> QED
        BY <2>2 DEF T
<1>7. IsWalk(g)
    <2>1. \A i \in 0 .. turns : i # 0 => i \in 1 .. turns /\ i - 1 \in 0 .. turns
        OBVIOUS
    <2> HIDE DEF At
    <2>2. \A i \in 0 .. turns : i # 0 => g[i] = Turn(lengths, g[i - 1])
        BY <1>5, <1>6, <2>1
    <2> QED
        BY <1>2, <1>3, <2>2
<1>8. IsWalk(after)
    BY <1>7
<1>9. Walk(lengths, first, days, turns) = after[turns]
    BY DEF Walk, Turn
<1> HIDE DEF after
<1>10. after[turns] = g[turns]
    <2>1. /\ after[0] = <<first, days>>
          /\ \A i \in 1 .. turns : after[i] = Turn(lengths, after[i - 1])
        <3>1. 0 \in 0 .. turns /\ \A i \in 1 .. turns : i \in 0 .. turns /\ i # 0
            OBVIOUS
        <3> QED
            BY <1>8, <3>1
    <2> HIDE DEF At, IsWalk
    <2>2. \A i \in 1 .. turns : g[i] = Turn(lengths, g[i - 1])
        <3>1. \A i \in 1 .. turns : i - 1 \in 0 .. turns
            OBVIOUS
        <3> QED
            BY <1>5, <1>6, <3>1
    <2>3. after[0] = g[0] /\ \A i \in 1 .. turns : after[i - 1] = g[i - 1] => after[i] = g[i]
        BY <1>3, <2>1, <2>2
    <2> QED
        BY <2>3, SameTurns
<1>11. At(g, turns)
    <2> HIDE DEF At
    <2> QED
        BY <1>6
<1> QED
    BY <1>9, <1>10, <1>11

(* A year is longer than the others exactly if a leap day is in it. *)
LEMMA LeapYears ==
    ASSUME NEW year \in Nat
    PROVE  /\ LeapDaysBefore(year) \in Int
           /\ LeapDay(year) = IF IsLeap(year) THEN 1 ELSE 0
<1>1. year \div 4 - (year - 1) \div 4 = IF year % 4 = 0 THEN 1 ELSE 0
    OBVIOUS
<1>2. year \div 100 - (year - 1) \div 100 = IF year % 100 = 0 THEN 1 ELSE 0
    OBVIOUS
<1>3. year \div 400 - (year - 1) \div 400 = IF year % 400 = 0 THEN 1 ELSE 0
    OBVIOUS
<1>4. (year % 400 = 0 => year % 100 = 0) /\ (year % 100 = 0 => year % 4 = 0)
    OBVIOUS
<1>5. (year + 1) - 1 = year
    OBVIOUS
<1>6. /\ year \div 4 \in Int /\ (year - 1) \div 4 \in Int
      /\ year \div 100 \in Int /\ (year - 1) \div 100 \in Int
      /\ year \div 400 \in Int /\ (year - 1) \div 400 \in Int
    OBVIOUS
<1> QED
    BY <1>1, <1>2, <1>3, <1>4, <1>5, <1>6 DEF LeapDaysBefore, LeapDay, IsLeap

(* Division: quotient and rest, that there is but one such pair, and that it grows
   with the dividend. *)
LEMMA Quotient ==
    ASSUME NEW t \in Nat, NEW c \in Nat \ {0}
    PROVE  t = c * (t \div c) + (t % c) /\ t \div c \in Nat /\ t % c \in 0 .. c - 1
    OBVIOUS

LEMMA OneQuotient ==
    ASSUME NEW c \in Nat \ {0}, NEW p \in Nat, NEW q \in Nat,
           NEW u \in 0 .. c - 1, NEW v \in 0 .. c - 1, c * p + u = c * q + v
    PROVE  p = q
<1>1. CASE p < q
    <2>1. q = p + 1 + (q - p - 1) /\ q - p - 1 \in Nat
        BY <1>1
    <2> QED
        BY <1>1, <2>1
<1>2. CASE q < p
    OBVIOUS
<1> QED
    BY <1>1, <1>2

LEMMA SmallRest ==
    ASSUME NEW c \in Nat \ {0}, NEW q \in Nat, NEW v \in 0 .. c - 1,
           NEW t \in Nat, t = c * q + v
    PROVE  t \div c = q /\ t % c = v
<1> DEFINE p == t \div c
           u == t % c
<1>1. t = c * p + u /\ p \in Nat /\ u \in 0 .. c - 1
    BY Quotient
<1> HIDE DEF p, u
<1>2. p = q
    BY <1>1, OneQuotient
<1>3. u = v
    BY <1>1, <1>2
<1> QED
    BY <1>2, <1>3 DEF p, u

LEMMA QuotientGrows ==
    ASSUME NEW c \in Nat \ {0}, NEW s \in Nat, NEW t \in Nat, s <= t
    PROVE  s \div c <= t \div c
<1> DEFINE p == s \div c
           u == s % c
           q == t \div c
           v == t % c
<1>1. s = c * p + u /\ p \in Nat /\ u \in 0 .. c - 1
    BY Quotient
<1>2. t = c * q + v /\ q \in Nat /\ v \in 0 .. c - 1
    BY Quotient
<1> HIDE DEF p, u, q, v
<1>3. CASE q < p
    <2>1. p = q + 1 + (p - q - 1) /\ p - q - 1 \in Nat
        BY <1>1, <1>2, <1>3
    <2> DEFINE m == p - q - 1
    <2>2. c * p = c * q + c + c * m
        BY <1>2, <2>1
    <2>3. c * m \in Nat
        BY <2>1
    <2> QED
        BY <1>1, <1>2, <2>2, <2>3
<1>4. CASE p <= q
    BY <1>4 DEF p, q
<1> QED
    BY <1>1, <1>2, <1>3, <1>4

(* The days before the year that has been counted to, when every YearSpan of them
   the year starts again from 0. *)
SpanDays == 365 * YearSpan + LeapDaysBefore(YearSpan) - LeapDaysBefore(0)
DaysTo(count) == (count \div YearSpan) * SpanDays
                 + 365 * (count % YearSpan) + LeapDaysBefore(count % YearSpan)

LEMMA LeapDaysGrow ==
    ASSUME NEW year \in Nat
    PROVE  LeapDaysBefore(0) <= LeapDaysBefore(year) /\ LeapDaysBefore(year) \in Int
<1>1. LeapDaysBefore(0) = -1
    <2>1. /\ 0 \div 4 = 0 /\ 0 \div 100 = 0
          /\ 0 \div 400 = 0 /\ 0 % 400 = 0
        <3>1. 0 = 4 * 0 + 0 /\ 0 = 100 * 0 + 0 /\ 0 = 400 * 0 + 0
            OBVIOUS
        <3> QED
            BY <3>1, SmallRest
    <2>2. LeapDaysBefore(0 + 1) = 0
        <3>1. (0 + 1) - 1 = 0
            OBVIOUS
        <3> QED
            BY <2>1, <3>1 DEF LeapDaysBefore
    <2>3. LeapDay(0) = 1 /\ LeapDaysBefore(0) \in Int
        BY <2>1, LeapYears DEF IsLeap
    <2> QED
        BY <2>2, <2>3 DEF LeapDay
<1>2. LeapDaysBefore(year) >= -1
    BY DEF LeapDaysBefore
<1> QED
    BY <1>1, <1>2, LeapYears

LEMMA SpanKnown == SpanDays \in Nat /\ YearSpan \in Nat \ {0} /\ 1970 < YearSpan
<1>1. YearSpan \in Nat /\ 1970 < YearSpan
    BY YearsAssumption
<1>2. LeapDaysBefore(0) <= LeapDaysBefore(YearSpan) /\ LeapDaysBefore(YearSpan) \in Int
    BY <1>1, LeapDaysGrow
<1>3. LeapDaysBefore(0) \in Int
    BY LeapYears
<1> QED
    BY <1>1, <1>2, <1>3 DEF SpanDays

LEMMA DaysToNext ==
    ASSUME NEW count \in Nat
    PROVE  /\ DaysTo(count) \in Int /\ DaysInYear[count] \in {365, 366}
           /\ DaysTo(count + 1) = DaysTo(count) + DaysInYear[count]
<1> DEFINE q == count \div YearSpan
           u == count % YearSpan
           S == YearSpan
           D == SpanDays
           days == DaysInYear[count]
<1>1. count = S * q + u /\ q \in Nat /\ u \in 0 .. S - 1 /\ S \in Nat \ {0} /\ D \in Nat
    <2>1. S \in Nat \ {0} /\ D \in Nat
        BY SpanKnown
    <2> HIDE DEF D
    <2> QED
        BY <2>1, Quotient
<1>2. /\ LeapDaysBefore(u) \in Int /\ LeapDaysBefore(u + 1) \in Int
      /\ LeapDay(u) = IF IsLeap(u) THEN 1 ELSE 0
      /\ LeapDay(u) = LeapDaysBefore(u + 1) - LeapDaysBefore(u)
    <2>1. u \in Nat /\ u + 1 \in Nat
        BY <1>1
    <2> HIDE DEF u
    <2> QED
        BY <2>1, LeapYears DEF LeapDay
<1>3. days = IF IsLeap(u) THEN 366 ELSE 365
    BY DEF DaysInYear
<1>4. DaysTo(count) = q * D + 365 * u + LeapDaysBefore(u)
    BY DEF DaysTo
<1> HIDE DEF q, u, S, D, days
<1>5. q * D \in Int /\ days = 365 + LeapDaysBefore(u + 1) - LeapDaysBefore(u)
    BY <1>1, <1>2, <1>3
<1>6. CASE u + 1 < S
    <2>1. count + 1 = S * q + (u + 1) /\ u + 1 \in 0 .. S - 1 /\ count + 1 \in Nat
        BY <1>1, <1>6
    <2>2. (count + 1) \div S = q /\ (count + 1) % S = u + 1
        BY <1>1, <2>1, SmallRest
    <2>3. DaysTo(count + 1) = q * D + 365 * (u + 1) + LeapDaysBefore(u + 1)
        BY <2>2 DEF DaysTo, S, D
    <2>4. DaysTo(count + 1) = DaysTo(count) + days
        BY <1>1, <1>2, <1>4, <1>5, <2>3
    <2> QED
        BY <1>1, <1>2, <1>3, <1>4, <1>5, <2>4 DEF days
<1>7. CASE u + 1 = S
    <2>1. count + 1 = S * (q + 1) + 0 /\ 0 \in 0 .. S - 1 /\ q + 1 \in Nat
          /\ count + 1 \in Nat
        BY <1>1, <1>7
    <2>2. (count + 1) \div S = q + 1 /\ (count + 1) % S = 0
        BY <1>1, <2>1, SmallRest
    <2>3. DaysTo(count + 1) = (q + 1) * D + 365 * 0 + LeapDaysBefore(0)
        BY <2>2 DEF DaysTo, S, D
    <2>4. D = 365 * S + LeapDaysBefore(u + 1) - LeapDaysBefore(0)
        BY <1>7 DEF D, S, SpanDays
    <2>5. (q + 1) * D = q * D + D /\ LeapDaysBefore(0) \in Int
        BY <1>1, LeapYears
    <2>6. DaysTo(count + 1) = DaysTo(count) + days
        BY <1>1, <1>2, <1>4, <1>5, <1>7, <2>3, <2>4, <2>5
    <2> QED
        BY <1>1, <1>2, <1>3, <1>4, <1>5, <2>6 DEF days
<1> QED
    BY <1>1, <1>6, <1>7

(* Within the span nothing starts again, and beyond it nothing is before it. *)
LEMMA DaysToIs ==
    ASSUME NEW count \in Nat
    PROVE  /\ count < YearSpan => /\ count % YearSpan = count
                                  /\ DaysTo(count) = 365 * count + LeapDaysBefore(count)
           /\ YearSpan <= count =>
                 DaysTo(count) >= 365 * YearSpan + LeapDaysBefore(YearSpan)
<1> DEFINE q == count \div YearSpan
           u == count % YearSpan
           S == YearSpan
           D == SpanDays
<1>1. count = S * q + u /\ q \in Nat /\ u \in 0 .. S - 1 /\ S \in Nat \ {0} /\ D \in Nat
    <2>1. S \in Nat \ {0} /\ D \in Nat
        BY SpanKnown
    <2> HIDE DEF D
    <2> QED
        BY <2>1, Quotient
<1>2. DaysTo(count) = q * D + 365 * u + LeapDaysBefore(u)
    BY DEF DaysTo
<1>3. D = 365 * S + LeapDaysBefore(S) - LeapDaysBefore(0)
    BY DEF SpanDays
<1> HIDE DEF q, u, D
<1>4. CASE count < S
    <2>1. count = S * 0 + count /\ count \in 0 .. S - 1
        BY <1>1, <1>4
    <2>2. q = 0 /\ u = count
        BY <1>1, <2>1, SmallRest DEF q, u
    <2>3. LeapDaysBefore(count) \in Int
        BY LeapYears
    <2>4. DaysTo(count) = 365 * count + LeapDaysBefore(count)
        BY <1>1, <1>2, <2>2, <2>3
    <2>5. count % YearSpan = count
        BY <2>2 DEF u, S
    <2>6. ~(YearSpan <= count)
        BY <1>1, <1>4 DEF S
    <2> HIDE DEF S
    <2> QED
        BY <2>4, <2>5, <2>6, Zenon
<1>5. CASE S <= count
    <2>1. LeapDaysBefore(0) <= LeapDaysBefore(u) /\ LeapDaysBefore(u) \in Int
        BY <1>1, LeapDaysGrow
    <2>2. LeapDaysBefore(0) \in Int /\ LeapDaysBefore(S) \in Int
        BY <1>1, LeapYears
    <2> DEFINE m == q - 1
    <2>3. q # 0
        BY <1>1, <1>5
    <2>4. q = m + 1 /\ m \in Nat
        BY <1>1, <2>3
    <2>5. m * D \in Nat
        BY <1>1, <2>4
    <2>6. q * D = m * D + D
        BY <1>1, <2>4
    <2> HIDE DEF m
    <2> DEFINE e == m * D
    <2>7. e \in Nat /\ q * D = e + D
        BY <2>5, <2>6
    <2> HIDE DEF e
    <2>8. DaysTo(count) >= 365 * S + LeapDaysBefore(S)
        BY <1>1, <1>2, <1>3, <2>1, <2>2, <2>7
    <2>9. ~(count < YearSpan)
        BY <1>1, <1>5 DEF S
    <2>10. DaysTo(count) >= 365 * YearSpan + LeapDaysBefore(YearSpan)
        BY <2>8 DEF S
    <2> HIDE DEF S
    <2> QED
        BY <2>9, <2>10, Zenon
<1> QED
    BY <1>1, <1>4, <1>5

(* The days before a year of the calendar, from 1970 on. *)
DaysSince70(year) == 365 * (year - 1970) + LeapDaysBefore(year) - LeapDaysBefore(1970)

(* The year that so many days lead to, and the day in it; or no year that can be
   counted to. *)
IsYearOf(at, days) ==
    /\ at[1] \in Nat /\ at[2] \in Nat /\ at[2] < DaysInYear[at[1]]
    /\ at[1] < YearSpan => days = DaysSince70(at[1]) + at[2]
    /\ YearSpan <= at[1] => DaysSince70(YearSpan) <= days

LEMMA YearFound ==
    ASSUME NEW days \in Nat, NEW at, at = CountYears(days)
    PROVE  IsYearOf(at, days) /\ at = <<at[1], at[2]>>
<1> DEFINE turns == days \div 365
           before == [y \in Nat |-> DaysTo(y)]
           lengths == DaysInYear
           walked == at[1] - 1970
<1>1. turns \in Nat /\ days < 365 * (turns + 1)
    OBVIOUS
<1>2. at = Walk(lengths, 1970, days, turns)
    BY DEF CountYears
<1> HIDE DEF turns
<1>3. ASSUME NEW u \in Nat
      PROVE  /\ before[u] \in Int /\ before[u] = DaysTo(u)
             /\ lengths[u] \in {365, 366} /\ before[u + 1] = before[u] + lengths[u]
    BY DaysToNext
<1> HIDE DEF before, lengths
<1>4. IsAt(at, lengths, before, 1970, days, turns)
    <2>1. \A u \in 1970 .. 1970 + turns : before[u] \in Int
        BY <1>1, <1>3
    <2>2. \A u \in 1970 .. 1970 + turns - 1 :
             lengths[u] \in Nat /\ before[u + 1] = before[u] + lengths[u]
        BY <1>1, <1>3
    <2> QED
        BY <1>1, <1>2, <2>1, <2>2, WalkTo
<1>5. /\ at = <<at[1], at[2]>>
      /\ at[1] \in 1970 .. 1970 + turns /\ at[2] \in Nat
      /\ days = at[2] + before[at[1]] - before[1970]
      /\ at[2] < lengths[at[1]] \/ at[1] = 1970 + turns
    BY <1>4 DEF IsAt
<1>6. before[at[1]] - before[1970] >= 365 * walked
    <2> DEFINE gone(i) == before[1970 + i] - before[1970]
               T == {i \in 0 .. turns : gone(i) >= 365 * i}
    <2>1. 0 \in T
        BY <1>1, <1>3
    <2>2. ASSUME NEW i \in 1 .. turns, i - 1 \in T PROVE i \in T
        <3> DEFINE u == 1970 + (i - 1)
        <3>1. u \in Nat /\ u + 1 = 1970 + i
            BY <1>1
        <3>2. /\ before[u] \in Int /\ before[u + 1] \in Int /\ before[1970] \in Int
              /\ before[u + 1] >= before[u] + 365
            <4>1. /\ before[u] \in Int /\ lengths[u] \in {365, 366}
                  /\ before[u + 1] = before[u] + lengths[u]
                BY <1>3, <3>1
            <4>2. before[1970] \in Int
                BY <1>3
            <4> HIDE DEF u
            <4> QED
                BY <4>1, <4>2
        <3>3. before[u] - before[1970] >= 365 * (i - 1)
            <4>1. gone(i - 1) >= 365 * (i - 1)
                BY <2>2, SMTT(30)
            <4> HIDE DEF T
            <4> QED
                BY <4>1
        <3> HIDE DEF u
        <3> QED
            BY <3>1, <3>2, <3>3
    <2> HIDE DEF T
    <2>3. 0 .. turns \subseteq T
        BY <1>1, <2>1, <2>2, UpTo
    <2>4. walked \in 0 .. turns /\ 1970 + walked = at[1]
        BY <1>1, <1>5
    <2>5. walked \in T
        BY <2>3, <2>4
    <2> QED
        BY <2>4, <2>5 DEF T
<1>7. /\ before[at[1]] \in Int /\ before[1970] \in Int /\ lengths[at[1]] \in {365, 366}
      /\ before[at[1]] = DaysTo(at[1]) /\ before[1970] = DaysTo(1970) /\ at[1] \in Nat
    <2>1. at[1] \in Nat
        BY <1>1, <1>5
    <2> QED
        BY <1>3, <2>1
<1>8. at[2] < lengths[at[1]]
    <2>1. CASE at[1] = 1970 + turns
        <3>1. walked = turns
            BY <1>1, <2>1
        <3>2. days >= 365 * turns
            BY <1>1, <1>5, <1>6, <1>7, <3>1
        <3> QED
            BY <1>1, <1>5, <1>6, <1>7, <2>1, SMTT(60)
    <2> QED
        BY <1>5, <2>1
<1>9. DaysTo(1970) = 365 * 1970 + LeapDaysBefore(1970) /\ LeapDaysBefore(1970) \in Int
    BY SpanKnown, DaysToIs, LeapYears
<1>10. ASSUME at[1] < YearSpan PROVE days = DaysSince70(at[1]) + at[2]
    <2>1. DaysTo(at[1]) = 365 * at[1] + LeapDaysBefore(at[1]) /\ LeapDaysBefore(at[1]) \in Int
        BY <1>7, <1>10, DaysToIs, LeapYears
    <2> QED
        BY <1>5, <1>7, <1>9, <2>1 DEF DaysSince70
<1>11. ASSUME YearSpan <= at[1] PROVE DaysSince70(YearSpan) <= days
    <2>1. DaysTo(at[1]) >= 365 * YearSpan + LeapDaysBefore(YearSpan)
        BY <1>7, <1>11, DaysToIs
    <2>2. LeapDaysBefore(YearSpan) \in Int /\ YearSpan \in Nat
        BY SpanKnown, LeapYears
    <2> QED
        BY <1>5, <1>7, <1>9, <2>1, <2>2 DEF DaysSince70
<1> QED
    BY <1>5, <1>7, <1>8, <1>10, <1>11 DEF IsYearOf, lengths

(* The month of a day of the year, and the day in it. *)
IsMonthOf(at, year, day) ==
    /\ at[1] \in 1 .. 12 /\ at[2] \in Nat /\ at[2] < MonthLength(year, at[1])
    /\ day = DaysBeforeMonth(year, at[1]) + at[2]

LEMMA MonthFound ==
    ASSUME NEW year \in Nat, year < YearSpan, NEW day \in Nat, day < DaysInYear[year],
           NEW at, at = MonthOf(year, day)
    PROVE  IsMonthOf(at, year, day) /\ MonthLength(year, at[1]) \in Int
<1> DEFINE leap == LeapDay(year)
           before == [m \in 1 .. 13 |-> DaysBeforeMonth(year, m)]
           lengths == MonthDays(year)
<1>1. leap \in {0, 1} /\ leap = IF IsLeap(year) THEN 1 ELSE 0
    BY LeapYears
<1>2. DaysInYear[year] = 365 + leap
    <2>1. year % YearSpan = year
        BY DaysToIs
    <2> QED
        BY <1>1, <2>1 DEF DaysInYear
<1>3. lengths = <<31, 28 + leap, 31, 30, 31, 30, 31, 31, 30, 31, 30, 31>>
    BY <1>1 DEF MonthDays
<1>4. \A m \in 1 .. 13 : before[m] = MonthStarts[m] + (IF m > 2 THEN leap ELSE 0)
    BY DEF DaysBeforeMonth
<1>5. at = Walk(lengths, 1, day, 12)
    BY DEF MonthOf
<1>6. \A m \in 1 .. 12 : MonthLength(year, m) = before[m + 1] - before[m]
    BY DEF MonthLength
<1> HIDE DEF leap, before, lengths
<1>7. /\ before[1] = 0 /\ before[2] = 31 /\ before[3] = 59 + leap
      /\ before[4] = 90 + leap /\ before[5] = 120 + leap /\ before[6] = 151 + leap
      /\ before[7] = 181 + leap /\ before[8] = 212 + leap /\ before[9] = 243 + leap
      /\ before[10] = 273 + leap /\ before[11] = 304 + leap /\ before[12] = 334 + leap
      /\ before[13] = 365 + leap
    BY <1>1, <1>4 DEF MonthStarts
<1>8. ASSUME NEW m \in 1 .. 13
      PROVE  /\ before[m] \in Int
             /\ m # 13 => /\ lengths[m] \in Nat
                          /\ before[m + 1] = before[m] + lengths[m]
    <2>1. /\ lengths[1] = 31 /\ lengths[2] = 28 + leap /\ lengths[3] = 31
          /\ lengths[4] = 30 /\ lengths[5] = 31 /\ lengths[6] = 30 /\ lengths[7] = 31
          /\ lengths[8] = 31 /\ lengths[9] = 30 /\ lengths[10] = 31
          /\ lengths[11] = 30 /\ lengths[12] = 31
        BY <1>3
    <2>2. m \in {1, 2, 3, 4, 5, 6, 7, 8, 9, 10, 11, 12, 13}
        OBVIOUS
    <2> QED
        BY <1>1, <1>7, <2>1, <2>2
<1>9. IsAt(at, lengths, before, 1, day, 12)
    <2>1. \A u \in 1 .. 1 + 12 : before[u] \in Int
        BY <1>8
    <2>2. \A u \in 1 .. 1 + 12 - 1 :
             lengths[u] \in Nat /\ before[u + 1] = before[u] + lengths[u]
        BY <1>8
    <2>3. 12 \in Nat /\ 1 \in Int
        OBVIOUS
    <2> QED
        BY <1>5, <2>1, <2>2, <2>3, WalkTo
<1>10. /\ at[1] \in 1 .. 13 /\ at[2] \in Nat /\ day = at[2] + before[at[1]] - before[1]
       /\ at[2] < lengths[at[1]] \/ at[1] = 13
    BY <1>9 DEF IsAt
<1>11. at[1] # 13
    BY <1>1, <1>2, <1>7, <1>10
<1>12. at[1] \in 1 .. 12 /\ MonthLength(year, at[1]) = lengths[at[1]]
    <2> DEFINE m == at[1]
    <2>1. m \in 1 .. 12 /\ m \in 1 .. 13 /\ m + 1 \in 1 .. 13 /\ m # 13
        BY <1>10, <1>11
    <2> HIDE DEF m
    <2>2. /\ before[m] \in Int /\ lengths[m] \in Nat
          /\ before[m + 1] = before[m] + lengths[m]
        BY <1>8, <2>1
    <2>3. MonthLength(year, m) = before[m + 1] - before[m]
        BY <1>6, <2>1
    <2>4. MonthLength(year, m) = lengths[m]
        BY <2>2, <2>3
    <2> QED
        BY <2>1, <2>4 DEF m
<1>13. day = DaysBeforeMonth(year, at[1]) + at[2]
    <2>1. before[at[1]] = DaysBeforeMonth(year, at[1])
        BY <1>12 DEF before
    <2> QED
        BY <1>7, <1>8, <1>10, <2>1
<1> QED
    BY <1>8, <1>10, <1>11, <1>12, <1>13 DEF IsMonthOf

(* One may divide by one number after another. *)
LEMMA Regroup ==
    ASSUME NEW a \in Int, NEW b \in Int, NEW p \in Int, NEW s \in Int
    PROVE  a * (b * p + s) = (a * b) * p + a * s
    OBVIOUS

Chained(t, a, b) ==
    (t \div a) \div b = t \div (a * b) /\ a * b \in Nat \ {0}

LEMMA DivideTwice ==
    ASSUME NEW t \in Nat, NEW a \in Nat \ {0}, NEW b \in Nat \ {0}
    PROVE  Chained(t, a, b)
<1> DEFINE c == a * b
           q == t \div a
           p == q \div b
           r == t % a
           s == q % b
           u == a * s + r
<1>1. c \in Nat \ {0}
    OBVIOUS
<1>2. t = a * q + r /\ q \in Nat /\ r \in 0 .. a - 1
    BY Quotient
<1>3. q = b * p + s /\ p \in Nat /\ s \in 0 .. b - 1
    BY <1>2, Quotient
<1>4. t = c * (t \div c) + (t % c) /\ t \div c \in Nat /\ t % c \in 0 .. c - 1
    BY <1>1, Quotient
<1> HIDE DEF q, p, r, s
<1>5. u \in 0 .. c - 1
    <2>1. a * s \in Nat
        BY <1>3
    <2>2. a * s + a <= c
        <3> DEFINE e == b - (s + 1)
        <3>1. e \in Nat /\ b = (s + 1) + e
            BY <1>3
        <3> HIDE DEF e
        <3>2. a * b = a * (s + 1) + a * e /\ a * e \in Nat
            BY <1>3, <3>1
        <3>3. a * s + a = a * (s + 1)
            BY <1>3
        <3> QED
            BY <1>3, <3>2, <3>3
    <2> QED
        BY <1>2, <2>1, <2>2
<1>6. t = c * p + u
    <2>1. a * q = c * p + a * s
        <3>1. a \in Int /\ b \in Int /\ p \in Int /\ s \in Int
            BY <1>3
        <3> QED
            BY <1>3, <3>1, Regroup
    <2>2. a * q \in Int /\ c * p \in Int /\ a * s \in Int
        BY <1>2, <1>3
    <2> QED
        BY <1>2, <2>1, <2>2
<1> HIDE DEF c, u
<1>7. t \div c = p
    BY <1>1, <1>3, <1>4, <1>5, <1>6, OneQuotient
<1> QED
    BY <1>1, <1>7 DEF c, q, p, Chained

(* A time before the date of the listing, in its place. *)
IsDated(time, t) ==
    /\ (time = None) <=> (t < 0)
    /\ \A date \in time : ~IsBeyond(t) =>
          /\ t \div SecsPerMin = MinutesBefore(date)
          /\ date.month \in 1 .. 12
          /\ date.day \in 1 .. MonthLength(date.year, date.month)
          /\ date.hour \in 0 .. HoursPerDay - 1
          /\ date.minute \in 0 .. MinsPerHour - 1

DaysOf(t) == t \div (SecsPerMin * MinsPerHour * HoursPerDay)

(* No year is left for a time exactly if as many days have gone as the years that
   a u32 can hold have. *)
LEMMA BeyondIs ==
    ASSUME NEW t
    PROVE  IsBeyond(t) <=> DaysOf(t) >= DaysSince70(YearSpan)
<1> DEFINE first == [year |-> YearSpan, month |-> 1, day |-> 1]
           leaps == LeapDaysBefore(YearSpan)
           leaps70 == LeapDaysBefore(1970)
<1>1. YearSpan \in Nat /\ leaps \in Int /\ leaps70 \in Int
    BY SpanKnown, LeapYears
<1>2. DaysBeforeMonth(YearSpan, 1) = 0
    BY DEF DaysBeforeMonth, MonthStarts
<1>3. DaysBefore(first) = 365 * (YearSpan - 1970) + leaps - leaps70 + 0 + 1 - 1
    BY <1>2 DEF DaysBefore
<1>4. DaysSince70(YearSpan) = 365 * (YearSpan - 1970) + leaps - leaps70
    BY DEF DaysSince70
<1>5. IsBeyond(t) <=> DaysOf(t) >= DaysBefore(first)
    BY DEF IsBeyond, DaysOf
<1> HIDE DEF first, leaps, leaps70
<1>6. DaysBefore(first) = DaysSince70(YearSpan)
    BY <1>1, <1>3, <1>4
<1> QED
    BY <1>5, <1>6

LEMMA DayIsLong == SecsPerMin * MinsPerHour * HoursPerDay \in Nat \ {0}
<1>1. SecsPerMin \in Nat \ {0} /\ MinsPerHour \in Nat \ {0} /\ HoursPerDay \in Nat \ {0}
    BY UnitsAssumption
<1> QED
    BY <1>1

(* Years are only counted too far for such a time. *)
LEMMA OverflowIsBeyond ==
    ASSUME NEW sec \in Int, NEW offset \in Int, sec \in -MaxI64 - 1 .. MaxI64,
           YearOverflows(sec, offset)
    PROVE  IsBeyond(sec + offset)
<1> DEFINE t == Shifted(sec, offset)
           at == CountYears(DaysOf(t))
           perDay == SecsPerMin * MinsPerHour * HoursPerDay
<1>1. t >= 0 /\ at[1] >= YearSpan
    BY DEF YearOverflows, DaysOf
<1>2. MaxI64 \in Nat /\ perDay \in Nat \ {0}
    BY WidthsAssumption, DayIsLong
<1>3. t \in Nat /\ sec + offset \in Nat /\ t <= sec + offset
    BY <1>1, <1>2 DEF Shifted
<1> HIDE DEF t, at, perDay
<1>4. DaysOf(t) \in Nat /\ DaysOf(sec + offset) \in Nat
    BY <1>2, <1>3, Quotient DEF DaysOf, perDay
<1>5. DaysOf(t) <= DaysOf(sec + offset)
    BY <1>2, <1>3, QuotientGrows DEF DaysOf, perDay
<1>6. IsYearOf(at, DaysOf(t))
    BY <1>4, YearFound DEF at
<1>7. DaysSince70(YearSpan) <= DaysOf(t)
    <2>1. YearSpan <= at[1]
        BY <1>1, <1>6, SpanKnown DEF IsYearOf
    <2> QED
        BY <1>6, <2>1 DEF IsYearOf
<1>8. DaysSince70(YearSpan) \in Int
    <2>1. YearSpan \in Nat /\ LeapDaysBefore(YearSpan) \in Int /\ LeapDaysBefore(1970) \in Int
        BY SpanKnown, LeapYears
    <2> QED
        BY <2>1 DEF DaysSince70
<1>9. DaysOf(sec + offset) >= DaysSince70(YearSpan)
    BY <1>4, <1>5, <1>7, <1>8
<1> QED
    BY <1>9, BeyondIs

LEMMA TimeIsDated ==
    ASSUME NEW sec \in Int, NEW offset \in Int, NEW t, t = sec + offset, t <= MaxI64,
           NEW time, time = FormatMtime(sec, offset)
    PROVE  IsDated(time, t)
<1> DEFINE S == SecsPerMin
           M == MinsPerHour
           H == HoursPerDay
           shifted == Shifted(sec, offset)
           perHour == S * M
           days(x) == x \div (perHour * H)
           year(x) == YearOf(days(x))
           month(x) == MonthOf(year(x)[1], year(x)[2])
           date(x) == [year |-> year(x)[1], month |-> month(x)[1], day |-> month(x)[2] + 1,
                       hour |-> (x \div perHour) % H, minute |-> (x \div S) % M]
<1>1. /\ S \in Nat \ {0} /\ M \in Nat \ {0} /\ H \in Nat \ {0}
      /\ MaxI64 \in Nat /\ t \in Int
    BY UnitsAssumption, WidthsAssumption
<1>2. time = IF shifted < 0 THEN None ELSE Some(date(shifted))
    BY DEF FormatMtime
<1>3. CASE t < 0
    <2>1. shifted < 0
        BY <1>1, <1>3 DEF Shifted
    <2>2. time = None
        BY <1>2, <2>1
    <2> QED
        BY <1>3, <2>2 DEF IsDated, None
<1>4. CASE ~(t < 0)
    <2>1. shifted = t /\ t \in Nat
        BY <1>1, <1>4 DEF Shifted
    <2>2. time = Some(date(t))
        BY <1>1, <1>2, <1>4, <2>1
    <2> DEFINE q == t \div S
               h == t \div perHour
               d == days(t)
               y == year(t)
               m == month(t)
               D == date(t)
    <2>3. /\ q = t \div S /\ h = t \div perHour /\ d = t \div (perHour * H)
          /\ perHour = S * M
        OBVIOUS
    <2>4. y = YearOf(d) /\ m = MonthOf(y[1], y[2])
        OBVIOUS
    <2>5. /\ D.year = y[1] /\ D.month = m[1] /\ D.day = m[2] + 1
          /\ D.hour = h % H /\ D.minute = q % M
        OBVIOUS
    <2>6. time = Some(D)
        BY <2>2
    <2> HIDE DEF q, h, d, y, m, D, S, M, H, shifted, perHour, days, year, month, date
    <2>7. q \in Nat /\ q \div M = h /\ perHour \in Nat \ {0}
        <3>1. q \in Nat
            BY <1>1, <2>1, <2>3, Quotient
        <3>2. Chained(t, S, M)
            BY <1>1, <2>1, DivideTwice
        <3> QED
            BY <2>3, <3>1, <3>2 DEF Chained
    <2>8. h \in Nat /\ h \div H = d
        <3>1. h \in Nat
            BY <2>1, <2>3, <2>7, Quotient
        <3>2. Chained(t, perHour, H)
            BY <1>1, <2>1, <2>7, DivideTwice
        <3>3. h \div H = t \div (perHour * H)
            BY <2>3, <3>2 DEF Chained
        <3> QED
            BY <2>3, <3>1, <3>3
    <2>9. q = M * h + (q % M) /\ q % M \in 0 .. M - 1
        BY <1>1, <2>7, Quotient
    <2>10. h = H * d + (h % H) /\ h % H \in 0 .. H - 1 /\ d \in Nat
        BY <1>1, <2>8, Quotient
    <2> SUFFICES ASSUME ~IsBeyond(t) PROVE IsDated(time, t)
        BY <1>4, <2>6 DEF IsDated, Some, None
    <2>11. y[1] < YearSpan /\ IsYearOf(y, d)
        <3> DEFINE at == CountYears(d)
        <3>1. y = <<at[1] % YearSpan, at[2]>>
            BY <2>4 DEF YearOf
        <3> HIDE DEF at
        <3>2. IsYearOf(at, d) /\ at = <<at[1], at[2]>>
            BY <2>10, YearFound DEF at
        <3>3. ~(d >= DaysSince70(YearSpan))
            <4>1. DaysOf(t) = d
                BY <2>3 DEF DaysOf, S, M, H
            <4> QED
                BY <4>1, BeyondIs
        <3>4. DaysSince70(YearSpan) \in Int /\ YearSpan \in Nat
            <4>1. /\ YearSpan \in Nat /\ LeapDaysBefore(YearSpan) \in Int
                  /\ LeapDaysBefore(1970) \in Int
                BY SpanKnown, LeapYears
            <4> QED
                BY <4>1 DEF DaysSince70
        <3>5. at[1] < YearSpan /\ at[1] \in Nat
            BY <2>10, <3>2, <3>3, <3>4 DEF IsYearOf
        <3>6. at[1] % YearSpan = at[1]
            BY <3>5, DaysToIs
        <3>7. y = at
            BY <3>1, <3>2, <3>6
        <3> QED
            BY <3>2, <3>5, <3>7
    <2>12. IsMonthOf(m, y[1], y[2]) /\ MonthLength(y[1], m[1]) \in Int
        <3>1. y[1] \in Nat /\ y[1] < YearSpan /\ y[2] \in Nat /\ y[2] < DaysInYear[y[1]]
            BY <2>11 DEF IsYearOf
        <3> QED
            BY <2>4, <3>1, MonthFound
    <2>13. DaysBefore(D) = d
        <3>1. LeapDaysBefore(y[1]) \in Int /\ LeapDaysBefore(1970) \in Int
            BY <2>11, LeapYears DEF IsYearOf
        <3> DEFINE rest == DaysBeforeMonth(y[1], m[1])
                   leaps == LeapDaysBefore(y[1])
                   leaps70 == LeapDaysBefore(1970)
        <3>2. y[2] = rest + m[2] /\ m[2] \in Nat /\ y[2] \in Nat /\ y[1] \in Nat
            BY <2>11, <2>12 DEF IsYearOf, IsMonthOf
        <3>3. d = 365 * (y[1] - 1970) + leaps - leaps70 + y[2]
            BY <2>11 DEF IsYearOf, DaysSince70
        <3>4. DaysBefore(D) = 365 * (y[1] - 1970) + leaps - leaps70 + rest + (m[2] + 1) - 1
            BY <2>5 DEF DaysBefore
        <3>5. rest \in Int
            <4>1. LeapDay(y[1]) \in Int /\ m[1] \in 1 .. 12
                BY <2>12, <3>2, LeapYears DEF IsMonthOf
            <4>2. MonthStarts[m[1]] \in Int
                <5>1. m[1] \in {1, 2, 3, 4, 5, 6, 7, 8, 9, 10, 11, 12}
                    BY <4>1
                <5> QED
                    BY <5>1 DEF MonthStarts
            <4> QED
                BY <4>1, <4>2 DEF DaysBeforeMonth
        <3> HIDE DEF rest, leaps, leaps70
        <3> QED
            BY <3>1, <3>2, <3>3, <3>4, <3>5 DEF leaps, leaps70
    <2>14. q = MinutesBefore(D)
        <3>1. MinutesBefore(D) = (d * H + (h % H)) * M + (q % M)
            BY <2>5, <2>13 DEF MinutesBefore, M, H
        <3>2. d * H + (h % H) = h
            BY <1>1, <2>10
        <3>3. h * M + (q % M) = q
            BY <1>1, <2>8, <2>9
        <3> QED
            BY <3>1, <3>2, <3>3
    <2>15. D.month \in 1 .. 12 /\ D.day \in 1 .. MonthLength(D.year, D.month)
        BY <2>5, <2>12 DEF IsMonthOf
    <2>16. D.hour \in 0 .. H - 1 /\ D.minute \in 0 .. M - 1 /\ t \div S = MinutesBefore(D)
        BY <2>3, <2>5, <2>9, <2>10, <2>14
    <2> QED
        BY <1>4, <2>6, <2>15, <2>16 DEF IsDated, Some, None, S, M, H
<1> QED
    BY <1>3, <1>4

(* ListingTrue: the listing has exactly the members that are asked for, in their
   order, each with the date and the minute its time falls in, in every year that
   a u32 can hold and however long the units of time are; and format_mtime panics
   only for a time beyond these years. *)
THEOREM ListingIsTrue == Spec => []ListingTrue
<1>1. ASSUME MetaInv, phase = "done"
      PROVE  /\ \A i, j \in DOMAIN listed : i < j => listed[i].member < listed[j].member
             /\ \A i \in DOMAIN toc :
                   LET path == toc[i].path.name
                       wanted == \/ scenario.patterns = {}
                                 \/ \E p \in scenario.patterns :
                                       \/ IsPrefix(Names(p), Names(path))
                                       \/ GlobMatches(Names(p), Names(path))
                   IN (\A p \in scenario.patterns \cup {path} : WellSpelt(p)) =>
                         (wanted <=> \E l \in DOMAIN listed : listed[l].member = i)
             /\ \A l \in DOMAIN listed :
                   LET t == toc[listed[l].member].mtime.sec + scenario.offset IN
                   t <= MaxI64 => IsDated(listed[l].time, t)
    <2>1. /\ ListedSoFar /\ TocHolds /\ next = Len(toc) + 1 /\ scenario \in Scenarios
        BY <1>1 DEF MetaInv
    <2>2. Len(toc) \in Nat /\ DOMAIN toc = 1 .. next - 1
        BY <2>1 DEF TocHolds, IsSequence
    <2>3. ASSUME NEW i \in DOMAIN toc, NEW path, path = toc[i].path.name,
                 \A p \in scenario.patterns \cup {path} : WellSpelt(p)
          PROVE  (\/ scenario.patterns = {}
                  \/ \E p \in scenario.patterns :
                        \/ IsPrefix(Names(p), Names(path))
                        \/ GlobMatches(Names(p), Names(path)))
                    <=> \E l \in DOMAIN listed : listed[l].member = i
        <3>1. FilterMatches(scenario.patterns, path)
                 <=> \E l \in DOMAIN listed : listed[l].member = i
            BY <2>1, <2>2, <2>3 DEF ListedSoFar
        <3> DEFINE patterns == scenario.patterns
        <3>2. WellSpelt(path) /\ \A p \in patterns : WellSpelt(p)
            BY <2>3
        <3> HIDE DEF patterns
        <3>3. FilterMatches(patterns, path) <=>
                 \/ patterns = {}
                 \/ \E p \in patterns : \/ IsPrefix(Names(p), Names(path))
                                        \/ GlobMatches(Names(p), Names(path))
            BY <3>2, FilterIsWanted
        <3> QED
            BY <3>1, <3>3 DEF patterns
    <2>4. ASSUME NEW l \in DOMAIN listed,
                 NEW t, t = toc[listed[l].member].mtime.sec + scenario.offset, t <= MaxI64
          PROVE  IsDated(listed[l].time, t)
        <3> DEFINE i == listed[l].member
                   sec == toc[i].mtime.sec
                   offset == scenario.offset
                   time == listed[l].time
        <3>1. i \in DOMAIN toc /\ time = FormatMtime(sec, offset)
            BY <2>1, <2>2 DEF ListedSoFar
        <3>2. sec \in Int
            <4>1. IsInstant(toc[i].mtime)
                BY <2>1, <3>1 DEF TocHolds, IsMember, Some
            <4>2. MaxI64 \in Nat
                BY WidthsAssumption
            <4> QED
                BY <4>1, <4>2 DEF IsInstant
        <3>3. offset \in Int /\ t = sec + offset
            BY <2>1, <2>4, StreamTypes
        <3> HIDE DEF i, sec, offset, time
        <3>4. IsDated(time, t)
            BY <2>4, <3>1, <3>2, <3>3, TimeIsDated
        <3> QED
            BY <3>4 DEF time
    <2>5. \A i, j \in DOMAIN listed : i < j => listed[i].member < listed[j].member
        BY <2>1 DEF ListedSoFar
    <2> QED
        BY <2>3, <2>4, <2>5
<1>2. ASSUME MetaInv, phase = "panicked"
      PROVE  IsBeyond(toc[next].mtime.sec + scenario.offset)
    <2> DEFINE sec == toc[next].mtime.sec
               offset == scenario.offset
    <2>1. YearOverflows(sec, offset) /\ IsInstant(toc[next].mtime) /\ offset \in Int
        BY <1>2, StreamTypes DEF MetaInv, TocHolds, IsMember, Some
    <2>2. sec \in -MaxI64 - 1 .. MaxI64 /\ sec \in Int /\ MaxI64 \in Nat
        BY <2>1, WidthsAssumption DEF IsInstant
    <2> HIDE DEF sec, offset
    <2>3. IsBeyond(sec + offset)
        BY <2>1, <2>2, OverflowIsBeyond
    <2> QED
        BY <2>3 DEF sec, offset
<1>3. MetaInv => ListingTrue
    BY <1>1, <1>2, Zenon DEF ListingTrue, IsDated
<1> QED
    BY <1>3, MetaInvariant, PTL
=============================================================================
