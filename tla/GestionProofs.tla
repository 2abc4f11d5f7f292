---------------------------- MODULE GestionProofs ----------------------------
(***************************************************************************)
(* What holds of Gestion for any number of people, shipments, warehouses   *)
(* and numbers: a WR names one shipment of its warehouse, and a correction *)
(* is saved over what its author saw.  Both rest on one invariant, which   *)
(* ties a WR to the warehouse of its shipment and what an editor saw to    *)
(* the version it was seen at.                                             *)
(***************************************************************************)
EXTENDS Gestion, TLAPS

\* A registration under way is of a shipment nobody else registers, and brings
\* a number only to a warehouse that issues them.
AltasPropias ==
    \A p \in Peticiones : op[p].fase = "ALTA" =>
        /\ op[p].c \in Cargas /\ ~Existe(op[p].c)
        /\ op[p].valor # Nada => op[p].bodega \in EmiteWR
        /\ \A q \in Peticiones \ {p} : op[q].fase = "ALTA" => op[q].c # op[p].c

\* A WR belongs to a shipment and is of the warehouse the shipment is in.
EnSuBodega ==
    \A c \in Cargas : wr[c] # Nada => Existe(c) /\ wr[c].bodega = carga[c].bodega

\* The unique index of shipment_references.
WRUnico == \A c, d \in Cargas : c # d /\ wr[c] # Nada => wr[c] # wr[d]

\* An editor has seen a version the shipment had, and of equal versions the
\* contents are equal.
VistaFiel ==
    \A p \in Peticiones : op[p].fase = "EDITA" =>
        /\ op[p].c \in Cargas /\ Existe(op[p].c)
        /\ op[p].version <= carga[op[p].c].version
        /\ MismaVersion(p) => Mostrar(op[p].c) = op[p].vista

GestionOK == TypeOK /\ AltasPropias /\ EnSuBodega /\ WRUnico /\ VistaFiel

-----------------------------------------------------------------------------
\* At the start there is one shipment, without WR, and nobody is doing anything.
LEMMA GestionInicial == Init => GestionOK
<1> SUFFICES ASSUME Init PROVE GestionOK
  OBVIOUS
<1>1. PICK c \in Cargas :
        carga = [d \in Cargas |-> IF d = c THEN Nueva(Nada, 0, TRUE) ELSE Nada]
  BY DEF Init
<1>2. Nueva(Nada, 0, TRUE) \in Filas
  BY Parametros DEF Nueva, Filas, Sitios
<1>3. /\ wr = [d \in Cargas |-> Nada]
      /\ op = [p \in Peticiones |-> Libre]
  BY DEF Init
<1>4. carga \in [Cargas -> {Nada} \cup Filas]
  BY <1>1, <1>2
<1>5. TypeOK
  BY <1>3, <1>4, Parametros DEF TypeOK, Libre, Sitios
<1> QED
  BY <1>3, <1>5 DEF GestionOK, AltasPropias, EnSuBodega, WRUnico, VistaFiel, Libre

\* What a step may do to a shipment that is there: it stays, and either shows
\* the same at the same version or has a later one.
Conserva(c) ==
    /\ Existe(c)'
    /\ \/ carga[c].version < carga'[c].version
       \/ carga[c].version = carga'[c].version /\ Mostrar(c)' = Mostrar(c)

\* What editors saw stays true under steps that conserve the shipments.
LEMMA VistaSigue ==
    ASSUME GestionOK, TypeOK',
           \A c \in Cargas : Existe(c) => Conserva(c),
           \A p \in Peticiones : op'[p] = op[p] \/ op'[p].fase # "EDITA"
    PROVE  VistaFiel'
<1> SUFFICES ASSUME NEW p \in Peticiones, op'[p].fase = "EDITA"
             PROVE  /\ op'[p].c \in Cargas /\ Existe(op[p].c)'
                    /\ op'[p].version <= carga'[op'[p].c].version
                    /\ MismaVersion(p)' => Mostrar(op[p].c)' = op'[p].vista
  BY DEF VistaFiel
<1> DEFINE c == op[p].c
<1>1. op'[p] = op[p] /\ op[p].fase = "EDITA"
  OBVIOUS
<1>2. /\ c \in Cargas /\ Existe(c)
      /\ op[p].version <= carga[c].version
      /\ MismaVersion(p) => Mostrar(c) = op[p].vista
  BY <1>1 DEF GestionOK, VistaFiel
<1>3. Conserva(c)
  BY <1>2
<1>4. carga[c] \in Filas /\ carga'[c] \in Filas
  BY <1>2, <1>3 DEF GestionOK, TypeOK, Conserva, Existe
<1>5. carga[c].version \in Nat /\ carga'[c].version \in Nat /\ op[p].version \in Nat
  BY <1>4, Parametros DEF Filas, GestionOK, TypeOK
<1>6. Existe(op[p].c)'
  BY <1>1, <1>3 DEF Conserva, Existe
<1>7. op'[p].version <= carga'[op'[p].c].version
  BY <1>1, <1>2, <1>3, <1>5 DEF Conserva
<1>8. ASSUME MismaVersion(p)'
      PROVE  Mostrar(op[p].c)' = op'[p].vista
  <2>1. carga'[c].version = op[p].version
    BY <1>1, <1>8 DEF MismaVersion
  <2>2. carga[c].version = carga'[c].version /\ Mostrar(c)' = Mostrar(c)
    BY <1>2, <1>3, <1>5, <2>1 DEF Conserva
  <2>3. MismaVersion(p)
    BY <2>1, <2>2 DEF MismaVersion
  <2>4. Mostrar(op[p].c)' = Mostrar(c)'
    BY <1>1 DEF Mostrar, ValorDe
  <2> QED
    BY <1>1, <1>2, <2>2, <2>3, <2>4
<1> QED
  BY <1>1, <1>2, <1>6, <1>7, <1>8

\* Registrations under way stay apart under steps that begin none and create
\* no shipment.
LEMMA AltasSiguen ==
    ASSUME GestionOK,
           \A c \in Cargas : Existe(c)' => Existe(c),
           \A p \in Peticiones : op'[p] = op[p] \/ op'[p].fase # "ALTA"
    PROVE  AltasPropias'
  BY DEF GestionOK, AltasPropias, Existe

FormaDeOp == [fase : {"LIBRE", "ALTA", "EDITA"}, c : Cargas \cup {Nada},
              version : 0 .. MaxVersion, vista : {Nada} \cup Contenido, bodega : Sitios,
              valor : Valores \cup {Nada}]

\* A person who is doing nothing.
LEMMA LibreTipada == Libre \in FormaDeOp /\ Libre.fase = "LIBRE" /\ Libre.valor = Nada
  BY Parametros DEF Libre, Sitios, FormaDeOp

\* The version after one that is below the bound.
LEMMA VersionSiguiente ==
    ASSUME NEW r \in Filas, r.version < MaxVersion
    PROVE  r.version + 1 \in 1 .. MaxVersion
  BY Parametros DEF Filas

\* A correction of one shipment that keeps its warehouse and its WR.
LEMMA EscribirFila ==
    ASSUME GestionOK, NEW c \in Cargas, Existe(c),
           NEW f \in Filas, carga' = [carga EXCEPT ![c] = f], wr' = wr,
           f.bodega = carga[c].bodega,
           \/ carga[c].version < f.version
           \/ /\ f.version = carga[c].version /\ f.piezas = carga[c].piezas
              /\ f.oculta = carga[c].oculta /\ f.datos = carga[c].datos,
           op' = op \/ \E p \in Peticiones : op' = [op EXCEPT ![p] = Libre]
    PROVE  GestionOK'
<1>1. carga \in [Cargas -> {Nada} \cup Filas] /\ carga[c] \in Filas /\ Nada \notin Filas
  BY Parametros DEF GestionOK, TypeOK, Existe
<1>2. carga' \in [Cargas -> {Nada} \cup Filas]
  BY <1>1
<1>3. \A d \in Cargas : Existe(d)' <=> Existe(d)
  BY <1>1 DEF Existe
<1>4. \A d \in Cargas : carga'[d] = IF d = c THEN f ELSE carga[d]
  BY <1>1
<1>5. TypeOK'
  <2>1. op' \in [Peticiones -> FormaDeOp]
    BY LibreTipada DEF GestionOK, TypeOK, FormaDeOp
  <2> QED
    BY <1>2, <2>1 DEF GestionOK, TypeOK, FormaDeOp
<1>6. \A d \in Cargas : Existe(d) => Conserva(d)
  <2> SUFFICES ASSUME NEW d \in Cargas, Existe(d)
               PROVE  Conserva(d)
    OBVIOUS
  <2>1. CASE d = c
    BY <1>3, <1>4, <2>1 DEF Conserva, Mostrar, ValorDe
  <2>2. CASE d # c
    BY <1>3, <1>4, <2>2 DEF Conserva, Mostrar, ValorDe
  <2> QED
    BY <2>1, <2>2
<1>7. \A p \in Peticiones : op'[p] = op[p] \/ op'[p].fase \notin {"ALTA", "EDITA"}
  BY DEF Libre, GestionOK, TypeOK
<1>8. EnSuBodega' /\ WRUnico'
  BY <1>3, <1>4 DEF GestionOK, EnSuBodega, WRUnico
<1> QED
  BY <1>3, <1>5, <1>6, <1>7, <1>8, VistaSigue, AltasSiguen DEF GestionOK

\* The shipment an editor has open is there.
LEMMA CargaAbierta ==
    ASSUME GestionOK, NEW p \in Peticiones, op[p].fase = "EDITA"
    PROVE  op[p].c \in Cargas /\ Existe(op[p].c) /\ carga[op[p].c] \in Filas
  BY DEF GestionOK, VistaFiel, TypeOK, Existe

\* A shipment that is there is a row.
LEMMA CargaExistente ==
    ASSUME GestionOK, NEW c \in Cargas, Existe(c)
    PROVE  carga[c] \in Filas /\ carga[c].version \in Nat
  BY Parametros DEF GestionOK, TypeOK, Existe, Filas

\* A correction of the data on the way, by the client.
LEMMA TransitoConserva ==
    ASSUME GestionOK, NEW p \in Peticiones, NEW d \in BOOLEAN, ActualizarTransito(p, d)
    PROVE  GestionOK'
<1> DEFINE c == op[p].c
           f == [carga[c] EXCEPT !.datos = d, !.version = @ + 1]
<1>1. c \in Cargas /\ Existe(c) /\ carga[c] \in Filas
  BY CargaAbierta DEF ActualizarTransito
<1>2. carga[c].version < MaxVersion /\ carga[c].version \in Nat
  BY <1>1, CargaExistente DEF ActualizarTransito
<1>3. f \in Filas
  <2>1. carga[c].version + 1 \in 1 .. MaxVersion
    BY <1>1, <1>2, VersionSiguiente
  <2> QED
    BY <1>1, <2>1 DEF Filas
<1>4. carga[c].version < f.version /\ f.bodega = carga[c].bodega
  BY <1>1, <1>2 DEF Filas
<1>5. carga' = [carga EXCEPT ![c] = f]
  BY <1>1 DEF ActualizarTransito, GestionOK, TypeOK
<1>6. wr' = wr /\ op' = [op EXCEPT ![p] = Libre]
  BY DEF ActualizarTransito
<1> HIDE DEF f
<1> QED
  BY <1>1, <1>3, <1>4, <1>5, <1>6, EscribirFila

\* The pieces are replaced over the version the editor saw.
LEMMA BultosConservan ==
    ASSUME GestionOK, NEW p \in Peticiones, NEW n \in 1 .. 2, NEW libre \in BOOLEAN,
           ReemplazarBultos(p, n, libre)
    PROVE  GestionOK'
<1> DEFINE c == op[p].c
           f == [carga[c] EXCEPT !.piezas = n, !.version = @ + 1]
<1>1. c \in Cargas /\ Existe(c) /\ carga[c] \in Filas
  BY CargaAbierta DEF ReemplazarBultos
<1>2. carga[c].version < MaxVersion /\ carga[c].version \in Nat
  BY <1>1, CargaExistente DEF ReemplazarBultos
<1>3. f \in Filas
  <2>1. carga[c].version + 1 \in 1 .. MaxVersion /\ n \in 0 .. 2
    BY <1>1, <1>2, VersionSiguiente
  <2> QED
    BY <1>1, <2>1 DEF Filas
<1>4. carga[c].version < f.version /\ f.bodega = carga[c].bodega
  BY <1>1, <1>2 DEF Filas
<1>5. carga' = [carga EXCEPT ![c] = f]
  BY <1>1 DEF ReemplazarBultos, ConBultos, GestionOK, TypeOK
<1>6. wr' = wr /\ op' = [op EXCEPT ![p] = Libre]
  BY DEF ReemplazarBultos
<1> HIDE DEF f
<1> QED
  BY <1>1, <1>3, <1>4, <1>5, <1>6, EscribirFila

\* Steps on one shipment that nobody had open: the mark of a review, showing it
\* again, and what the transition engine and the archiver do.
LEMMA OtrosConservan ==
    ASSUME GestionOK, NEW c \in Cargas,
           ResolverRevision(c) \/ Recuperar(c) \/ Transicionar(c) \/ ArchivarPendientes(c)
    PROVE  GestionOK'
<1>1. Existe(c)
  BY DEF ResolverRevision, Recuperar, Transicionar, ArchivarPendientes, Avanzar
<1>2. carga[c] \in Filas /\ carga[c].version \in Nat
  BY <1>1, CargaExistente
<1>3. CASE ResolverRevision(c)
  <2> DEFINE f == [carga[c] EXCEPT !.revision = FALSE]
  <2>1. f \in Filas /\ f.version = carga[c].version /\ f.piezas = carga[c].piezas
        /\ f.oculta = carga[c].oculta /\ f.datos = carga[c].datos /\ f.bodega = carga[c].bodega
    BY <1>2 DEF Filas
  <2>2. carga' = [carga EXCEPT ![c] = f] /\ wr' = wr /\ op' = op
    BY <1>2, <1>3 DEF ResolverRevision, GestionOK, TypeOK
  <2> HIDE DEF f
  <2> QED
    BY <1>1, <2>1, <2>2, EscribirFila
<1>4. CASE Recuperar(c)
  <2> DEFINE f == [carga[c] EXCEPT !.oculta = FALSE, !.version = @ + 1]
  <2>1. f \in Filas
    <3>1. carga[c].version + 1 \in 1 .. MaxVersion
      BY <1>2, <1>4, VersionSiguiente DEF Recuperar
    <3> QED
      BY <1>2, <3>1 DEF Filas
  <2>2. carga[c].version < f.version /\ f.bodega = carga[c].bodega
    BY <1>2 DEF Filas
  <2>3. carga' = [carga EXCEPT ![c] = f] /\ wr' = wr /\ op' = op
    BY <1>2, <1>4 DEF Recuperar, GestionOK, TypeOK
  <2> HIDE DEF f
  <2> QED
    BY <1>1, <2>1, <2>2, <2>3, EscribirFila
<1>5. CASE Transicionar(c)
  <2> DEFINE f == [carga[c] EXCEPT !.cerrada = "SALIO", !.version = @ + 1]
  <2>0. /\ carga[c].version < MaxVersion
        /\ carga' = [carga EXCEPT ![c].cerrada = "SALIO", ![c].version = @ + 1]
        /\ wr' = wr /\ op' = op
    BY <1>5 DEF Transicionar, Avanzar
  <2>1. f \in Filas
    <3>1. carga[c].version + 1 \in 1 .. MaxVersion
      BY <1>2, <2>0, VersionSiguiente
    <3> QED
      BY <1>2, <3>1 DEF Filas
  <2>2. carga[c].version < f.version /\ f.bodega = carga[c].bodega
    BY <1>2 DEF Filas
  <2>3. carga' = [carga EXCEPT ![c] = f]
    BY <1>2, <2>0 DEF GestionOK, TypeOK
  <2> HIDE DEF f
  <2> QED
    BY <1>1, <2>0, <2>1, <2>2, <2>3, EscribirFila
<1>6. CASE ArchivarPendientes(c)
  <2> DEFINE f == [carga[c] EXCEPT !.cerrada = "ARCHIVADA"]
  <2>1. f \in Filas /\ f.version = carga[c].version /\ f.piezas = carga[c].piezas
        /\ f.oculta = carga[c].oculta /\ f.datos = carga[c].datos /\ f.bodega = carga[c].bodega
    BY <1>2 DEF Filas
  <2>2. carga' = [carga EXCEPT ![c] = f] /\ wr' = wr /\ op' = op
    BY <1>2, <1>6 DEF ArchivarPendientes, Avanzar, GestionOK, TypeOK
  <2> HIDE DEF f
  <2> QED
    BY <1>1, <2>1, <2>2, EscribirFila
<1> QED
  BY <1>3, <1>4, <1>5, <1>6

\* Hiding writes several shipments; each has a later version.
LEMMA OcultarConserva ==
    ASSUME GestionOK, NEW cs \in SUBSET Cargas, Ocultar(cs)
    PROVE  GestionOK'
<1> DEFINE f(c) == [carga[c] EXCEPT !.oculta = TRUE, !.version = @ + 1]
<1>1. /\ carga' = [c \in Cargas |-> IF c \in cs THEN f(c) ELSE carga[c]]
      /\ wr' = wr /\ op' = op
  BY DEF Ocultar
<1>2. ASSUME NEW c \in cs
      PROVE  /\ f(c) \in Filas /\ carga[c].version < f(c).version
             /\ f(c).bodega = carga[c].bodega /\ Existe(c)
  <2>1. c \in Cargas /\ Existe(c) /\ carga[c].version < MaxVersion
    BY <1>2 DEF Ocultar, Ocultable
  <2>2. carga[c] \in Filas /\ carga[c].version \in Nat
    BY <2>1, CargaExistente
  <2>3. carga[c].version + 1 \in 1 .. MaxVersion
    BY <2>1, <2>2, VersionSiguiente
  <2>4. f(c) \in Filas
    BY <2>2, <2>3 DEF Filas
  <2>5. carga[c].version < f(c).version /\ f(c).bodega = carga[c].bodega
    BY <2>2 DEF Filas
  <2> QED
    BY <2>1, <2>4, <2>5
<1> HIDE DEF f
<1>3. TypeOK'
  BY <1>1, <1>2 DEF GestionOK, TypeOK
<1>4. \A c \in Cargas : Existe(c)' <=> Existe(c)
  BY <1>1, <1>2, Parametros DEF Existe
<1>5. \A c \in Cargas : Existe(c) => Conserva(c)
  <2> SUFFICES ASSUME NEW c \in Cargas, Existe(c) PROVE Conserva(c)
    OBVIOUS
  <2>1. CASE c \in cs
    BY <1>1, <1>2, <1>4, <2>1 DEF Conserva
  <2>2. CASE c \notin cs
    BY <1>1, <1>4, <2>2 DEF Conserva, Mostrar, ValorDe
  <2> QED
    BY <2>1, <2>2
<1>6. EnSuBodega' /\ WRUnico'
  BY <1>1, <1>2, <1>4 DEF GestionOK, EnSuBodega, WRUnico
<1> QED
  BY <1>1, <1>3, <1>4, <1>5, <1>6, VistaSigue, AltasSiguen DEF GestionOK

\* A correction of one shipment that may change its warehouse and its WR, when
\* no other shipment has the WR it ends with.
LEMMA EscribirNumero ==
    ASSUME GestionOK, NEW c \in Cargas, Existe(c),
           NEW f \in Filas, carga' = [carga EXCEPT ![c] = f], carga[c].version < f.version,
           NEW n \in {Nada} \cup Numeros, wr' = [wr EXCEPT ![c] = n],
           n # Nada => n.bodega = f.bodega /\ \A d \in Cargas \ {c} : wr[d] # n,
           NEW p \in Peticiones, op' = [op EXCEPT ![p] = Libre]
    PROVE  GestionOK'
<1>1. \A e \in Cargas : e # c => carga'[e] = carga[e] /\ wr'[e] = wr[e]
  BY DEF GestionOK, TypeOK
<1>2. carga'[c] = f /\ wr'[c] = n
  BY DEF GestionOK, TypeOK
<1>3. \A e \in Cargas : Existe(e)' <=> Existe(e)
  BY <1>1, <1>2, Parametros DEF Existe
<1>4. TypeOK'
  BY LibreTipada DEF GestionOK, TypeOK, FormaDeOp
<1>5. \A e \in Cargas : Existe(e) => Conserva(e)
  <2> SUFFICES ASSUME NEW e \in Cargas, Existe(e) PROVE Conserva(e)
    OBVIOUS
  <2>1. CASE e = c
    BY <1>2, <1>3, <2>1 DEF Conserva
  <2>2. CASE e # c
    BY <1>1, <1>3, <2>2 DEF Conserva, Mostrar, ValorDe
  <2> QED
    BY <2>1, <2>2
<1>6. EnSuBodega'
  BY <1>1, <1>2, <1>3 DEF GestionOK, EnSuBodega
<1>7. WRUnico'
  BY <1>1, <1>2 DEF GestionOK, WRUnico
<1>8. \A q \in Peticiones : op'[q] = op[q] \/ op'[q].fase \notin {"ALTA", "EDITA"}
  BY DEF Libre, GestionOK, TypeOK
<1> QED
  BY <1>3, <1>4, <1>5, <1>6, <1>7, <1>8, VistaSigue, AltasSiguen DEF GestionOK

\* A correction of the warehouse or of the WR: the number is free in the
\* warehouse the shipment ends in, whether the number or the warehouse is new.
LEMMA ActualizarConserva ==
    ASSUME GestionOK, NEW p \in Peticiones, NEW b \in Sitios, NEW v \in Valores \cup {Nada},
           NEW d \in BOOLEAN, NEW libre \in BOOLEAN, Actualizar(p, b, v, d, libre)
    PROVE  GestionOK'
<1> DEFINE c == op[p].c
           f == [carga[c] EXCEPT !.bodega = b, !.datos = d, !.version = @ + 1]
           n == IF v = Nada THEN Nada ELSE [valor |-> v, bodega |-> b]
<1>1. c \in Cargas /\ Existe(c) /\ carga[c] \in Filas /\ carga[c].version \in Nat
  BY CargaAbierta, CargaExistente DEF Actualizar
<1>2. f \in Filas
  <2>1. carga[c].version + 1 \in 1 .. MaxVersion
    BY <1>1, VersionSiguiente DEF Actualizar
  <2> QED
    BY <1>1, <2>1 DEF Filas
<1>3. carga[c].version < f.version /\ f.bodega = b
  BY <1>1 DEF Filas
<1>4. carga' = [carga EXCEPT ![c] = f]
  BY <1>1 DEF Actualizar, GestionOK, TypeOK
<1>5. wr' = [wr EXCEPT ![c] = n] /\ op' = [op EXCEPT ![p] = Libre]
  BY DEF Actualizar, Referencia
<1>6. v # Nada => b \in EmiteWR /\ n \in Numeros /\ WRLibre(c, b, v)
  <2> SUFFICES ASSUME v # Nada
               PROVE  b \in EmiteWR /\ n \in Numeros /\ WRLibre(c, b, v)
    OBVIOUS
  <2>1. CASE v # ValorDe(c)
    BY <2>1, Parametros DEF Actualizar, UsaWR, Numeros
  <2>2. CASE v = ValorDe(c)
    <3>1. UsaWR(b) /\ (b # carga[c].bodega => WRLibre(c, b, v))
      BY <2>2 DEF Actualizar
    <3>2. wr[c] # Nada /\ wr[c] \in Numeros /\ wr[c].valor = v
      BY <1>1, <2>2 DEF ValorDe, GestionOK, TypeOK
    <3>3. b = carga[c].bodega => wr[c] = [valor |-> v, bodega |-> b]
      BY <1>1, <3>2 DEF GestionOK, EnSuBodega, Numeros
    <3>4. b = carga[c].bodega => WRLibre(c, b, v)
      BY <1>1, <3>2, <3>3 DEF GestionOK, WRUnico, WRLibre
    <3> QED
      BY <3>1, <3>4, Parametros DEF UsaWR, Numeros
  <2> QED
    BY <2>1, <2>2
<1>7. n \in {Nada} \cup Numeros
      /\ (n # Nada => n.bodega = f.bodega /\ \A e \in Cargas \ {c} : wr[e] # n)
  BY <1>3, <1>6 DEF WRLibre
<1> HIDE DEF c, f, n
<1> QED
  BY <1>1, <1>2, <1>3, <1>4, <1>5, <1>7, EscribirNumero

\* Beginning a registration, opening a shipment and giving up write no row.
LEMMA SoloPeticion ==
    ASSUME GestionOK, NEW p \in Peticiones,
           \/ \E c \in Cargas, b \in Sitios, v \in Valores \cup {Nada} : Alta(p, c, b, v)
           \/ \E c \in Cargas : Abrir(p, c)
           \/ Cerrar(p)
    PROVE  GestionOK'
<1>1. UNCHANGED <<carga, wr>>
  BY DEF Alta, Abrir, Cerrar
<1>2. EnSuBodega' /\ WRUnico'
  BY <1>1 DEF GestionOK, EnSuBodega, WRUnico, Existe
<1>3. \A c \in Cargas : (Existe(c)' <=> Existe(c)) /\ Mostrar(c)' = Mostrar(c)
  BY <1>1 DEF Existe, Mostrar, ValorDe
<1>4. \A c \in Cargas : Existe(c) => Conserva(c)
  BY <1>1, <1>3 DEF Conserva
<1>5. ASSUME NEW c \in Cargas, NEW b \in Sitios, NEW v \in Valores \cup {Nada}, Alta(p, c, b, v)
      PROVE  GestionOK'
  <2> DEFINE o == [Libre EXCEPT !.fase = "ALTA", !.c = c, !.bodega = b, !.valor = v]
  <2>1. op' = [op EXCEPT ![p] = o]
    BY <1>5 DEF Alta
  <2>2. o \in FormaDeOp /\ o.fase = "ALTA" /\ o.c = c /\ o.bodega = b /\ o.valor = v
    BY LibreTipada DEF FormaDeOp
  <2>3. v # Nada => b \in EmiteWR
    BY <1>5 DEF Alta, IdentificadorAlAlta, UsaWR
  <2>4. ~Existe(c) /\ \A q \in Peticiones : op[q].fase = "ALTA" => op[q].c # c
    BY <1>5 DEF Alta
  <2> HIDE DEF o
  <2>5. \A q \in Peticiones : op'[q] = IF q = p THEN o ELSE op[q]
    BY <2>1 DEF GestionOK, TypeOK
  <2>6. TypeOK'
    BY <1>1, <2>1, <2>2 DEF GestionOK, TypeOK, FormaDeOp
  <2>7. AltasPropias'
    BY <1>1, <2>2, <2>3, <2>4, <2>5 DEF GestionOK, AltasPropias, Existe
  <2>8. VistaFiel'
    BY <1>4, <2>2, <2>5, <2>6, VistaSigue
  <2> QED
    BY <1>2, <2>6, <2>7, <2>8 DEF GestionOK
<1>6. ASSUME NEW c \in Cargas, Abrir(p, c)
      PROVE  GestionOK'
  <2> DEFINE o == [Libre EXCEPT !.fase = "EDITA", !.c = c, !.version = carga[c].version,
                                !.vista = Mostrar(c)]
  <2>1. op' = [op EXCEPT ![p] = o] /\ Existe(c)
    BY <1>6 DEF Abrir
  <2>4. carga[c] \in Filas /\ carga[c].version \in 0 .. MaxVersion
    BY <2>1, CargaExistente, Parametros DEF Filas
  <2>5. Mostrar(c) \in Contenido
    BY <2>4 DEF Mostrar, ValorDe, Contenido, Filas, Numeros, GestionOK, TypeOK
  <2>2. /\ o \in FormaDeOp /\ o.fase = "EDITA" /\ o.c = c
        /\ o.version = carga[c].version /\ o.vista = Mostrar(c)
    BY <2>4, <2>5, LibreTipada DEF FormaDeOp
  <2> HIDE DEF o
  <2>3. \A q \in Peticiones : op'[q] = IF q = p THEN o ELSE op[q]
    BY <2>1 DEF GestionOK, TypeOK
  <2>6. TypeOK'
    BY <1>1, <2>1, <2>2 DEF GestionOK, TypeOK, FormaDeOp
  <2>7. AltasPropias'
    BY <1>3, <2>2, <2>3, AltasSiguen
  <2>8. VistaFiel'
    <3> SUFFICES ASSUME NEW q \in Peticiones, op'[q].fase = "EDITA"
                 PROVE  /\ op'[q].c \in Cargas /\ Existe(op[q].c)'
                        /\ op'[q].version <= carga'[op'[q].c].version
                        /\ MismaVersion(q)' => Mostrar(op[q].c)' = op'[q].vista
      BY DEF VistaFiel
    <3>1. CASE q = p
      <4>1. op'[q] = o
        BY <2>3, <3>1
      <4>2. carga[c].version \in Nat /\ Existe(c)' /\ Mostrar(c)' = Mostrar(c)
        BY <1>3, <2>1, <2>4, Parametros
      <4>3. Existe(op[q].c)' /\ Mostrar(op[q].c)' = Mostrar(c)'
        BY <2>2, <4>1, <4>2 DEF Existe, Mostrar, ValorDe
      <4> QED
        BY <1>1, <2>2, <4>1, <4>2, <4>3
    <3>2. CASE q # p
      <4>1. op'[q] = op[q]
        BY <2>3, <3>2
      <4> QED
        BY <1>1, <4>1 DEF GestionOK, VistaFiel, Existe, MismaVersion, Mostrar, ValorDe
    <3> QED
      BY <3>1, <3>2
  <2> QED
    BY <1>2, <2>6, <2>7, <2>8 DEF GestionOK
<1>7. CASE Cerrar(p)
  <2>1. op' = [op EXCEPT ![p] = Libre]
    BY <1>7 DEF Cerrar
  <2>2. TypeOK'
    BY <1>1, <2>1, LibreTipada DEF GestionOK, TypeOK, FormaDeOp
  <2>3. \A q \in Peticiones : op'[q] = op[q] \/ op'[q].fase \notin {"ALTA", "EDITA"}
    BY <2>1 DEF Libre, GestionOK, TypeOK
  <2> QED
    BY <1>2, <1>3, <1>4, <2>2, <2>3, VistaSigue, AltasSiguen DEF GestionOK
<1> QED
  BY <1>5, <1>6, <1>7

\* A registration inserts its number only where nobody has it.
LEMMA CrearConserva ==
    ASSUME GestionOK, NEW p \in Peticiones, Crear(p)
    PROVE  GestionOK'
<1>0. PICK c, b, v : c = op[p].c /\ b = op[p].bodega /\ v = op[p].valor
  OBVIOUS
<1> DEFINE f == Nueva(b, 1, FALSE)
           n == [valor |-> v, bodega |-> b]
<1>1. /\ op[p].fase = "ALTA" /\ op' = [op EXCEPT ![p] = Libre]
      /\ carga' = [carga EXCEPT ![c] = f]
      /\ wr' = IF v # Nada /\ WRLibre(c, b, v) THEN [wr EXCEPT ![c] = n] ELSE wr
  BY <1>0 DEF Crear, GuardarReferencias
<1>2. /\ c \in Cargas /\ ~Existe(c)
      /\ v # Nada => b \in EmiteWR
      /\ \A q \in Peticiones \ {p} : op[q].fase = "ALTA" => op[q].c # c
  BY <1>0, <1>1 DEF GestionOK, AltasPropias
<1>3. wr[c] = Nada
  BY <1>2 DEF GestionOK, EnSuBodega
<1>4. b \in Sitios /\ v \in Valores \cup {Nada}
  BY <1>0 DEF GestionOK, TypeOK
<1>5. f \in Filas /\ f.bodega = b
  BY <1>4, Parametros DEF Nueva, Filas
<1>6. v # Nada => n \in Numeros /\ n.bodega = f.bodega
  BY <1>2, <1>4, <1>5, Parametros DEF Numeros
<1>7. \A e \in Cargas \ {c} : carga'[e] = carga[e] /\ wr'[e] = wr[e]
  BY <1>1 DEF GestionOK, TypeOK
<1>8. carga'[c] = f /\ (wr'[c] = Nada \/ (v # Nada /\ wr'[c] = n /\ WRLibre(c, b, v)))
  BY <1>1, <1>2, <1>3 DEF GestionOK, TypeOK
<1>9. Existe(c)' /\ \A e \in Cargas \ {c} : Existe(e)' <=> Existe(e)
  BY <1>5, <1>7, <1>8, Parametros DEF Existe
<1> HIDE DEF f
<1>10. TypeOK'
  <2>1. carga' \in [Cargas -> {Nada} \cup Filas]
    BY <1>1, <1>5 DEF GestionOK, TypeOK
  <2>2. wr' \in [Cargas -> {Nada} \cup Numeros]
    BY <1>1, <1>6 DEF GestionOK, TypeOK
  <2> QED
    BY <1>1, <2>1, <2>2, LibreTipada DEF GestionOK, TypeOK, FormaDeOp
<1>11. EnSuBodega'
  BY <1>6, <1>7, <1>8, <1>9 DEF GestionOK, EnSuBodega
<1>12. \A e \in Cargas \ {c} : v # Nada /\ WRLibre(c, b, v) => wr[e] # n
  BY DEF WRLibre
<1> HIDE DEF n
<1>13. WRUnico'
  <2> SUFFICES ASSUME NEW e \in Cargas, NEW g \in Cargas, e # g, wr'[e] # Nada
               PROVE  wr'[e] # wr'[g]
    BY DEF WRUnico
  <2>1. CASE e = c
    BY <1>7, <1>8, <1>12, <2>1
  <2>2. CASE g = c
    BY <1>7, <1>8, <1>12, <2>2
  <2>3. CASE e # c /\ g # c
    BY <1>7, <2>3 DEF GestionOK, WRUnico
  <2> QED
    BY <2>1, <2>2, <2>3
<1>14. \A q \in Peticiones : op'[q] = IF q = p THEN Libre ELSE op[q]
  BY <1>1 DEF GestionOK, TypeOK
<1>15. AltasPropias'
  BY <1>2, <1>7, <1>14 DEF GestionOK, AltasPropias, Existe, Libre
<1>16. VistaFiel'
  <2>1. \A e \in Cargas : Existe(e) => Conserva(e)
    BY <1>2, <1>7, <1>9 DEF Conserva, Mostrar, ValorDe
  <2> QED
    BY <1>10, <1>14, <2>1, VistaSigue DEF Libre
<1> QED
  BY <1>10, <1>11, <1>13, <1>15, <1>16 DEF GestionOK

\* Every step keeps the invariant.
LEMMA GestionPaso == GestionOK /\ [Next]_vars => GestionOK'
<1> SUFFICES ASSUME GestionOK, [Next]_vars PROVE GestionOK'
  OBVIOUS
<1>1. ASSUME NEW p \in Peticiones,
             CrearCarga(p) \/ Cerrar(p) \/ \E c \in Cargas : Abrir(p, c)
      PROVE  GestionOK'
  BY <1>1, SoloPeticion, CrearConserva DEF CrearCarga
<1>2. ASSUME NEW p \in Peticiones, ActualizarCarga(p)
      PROVE  GestionOK'
  BY <1>2, ActualizarConserva DEF ActualizarCarga
<1>3. ASSUME NEW p \in Peticiones, ActualizarDatosTransito(p) \/ CambiarBultos(p)
      PROVE  GestionOK'
  BY <1>3, TransitoConserva, BultosConservan DEF ActualizarDatosTransito, CambiarBultos
<1>4. ASSUME NEW c \in Cargas,
             \/ ResolverRevision(c) \/ Recuperar(c) \/ Transicionar(c) \/ ArchivarPendientes(c)
      PROVE  GestionOK'
  BY <1>4, OtrosConservan
<1>5. ASSUME NEW c \in Cargas, OcultarCarga(c)
      PROVE  GestionOK'
  BY <1>5, {c} \in SUBSET Cargas, OcultarConserva DEF OcultarCarga
<1>6. CASE OcultarCargasMasivamente
  BY <1>6, OcultarConserva DEF OcultarCargasMasivamente
<1>7. CASE UNCHANGED vars
  BY <1>7 DEF vars, GestionOK, TypeOK, AltasPropias, EnSuBodega, WRUnico, VistaFiel, Existe,
              MismaVersion, Mostrar, ValorDe
<1> QED
  BY <1>1, <1>2, <1>3, <1>4, <1>5, <1>6, <1>7 DEF Next

\* The invariant holds throughout.
LEMMA GestionSiempre == Spec => []GestionOK
<1> QED
  BY GestionInicial, GestionPaso, PTL DEF Spec

-----------------------------------------------------------------------------
\* The rows, the numbers and what people are doing keep their form.
THEOREM TipoCorrecto == Spec => []TypeOK
<1>1. GestionOK => TypeOK
  BY DEF GestionOK
<1> QED
  BY <1>1, GestionSiempre, PTL

\* Two shipments of one warehouse never carry the same WR, whether they got
\* there by registration, by a correction of the WR or by a change of warehouse.
THEOREM UnWRPorBodegaSiempre == Spec => []UnWRPorBodega
<1>1. GestionOK => UnWRPorBodega
  <2> SUFFICES ASSUME GestionOK, NEW c \in Cargas, NEW d \in Cargas, c # d,
                      wr[c] # Nada, wr[d] # Nada, carga[c].bodega = carga[d].bodega,
                      wr[c].valor = wr[d].valor
               PROVE  FALSE
    BY DEF UnWRPorBodega
  <2>1. wr[c].bodega = wr[d].bodega /\ wr[c] # wr[d]
    BY DEF GestionOK, EnSuBodega, WRUnico
  <2>2. wr[c] \in Numeros /\ wr[d] \in Numeros
    BY DEF GestionOK, TypeOK
  <2> QED
    BY <2>1, <2>2 DEF Numeros
<1> QED
  BY <1>1, GestionSiempre, PTL

\* What NadaSePisa says of one step.
SobreLoVisto ==
    \A p \in Peticiones :
        op[p].fase = "EDITA" /\ op'[p] = Libre /\ <<carga, wr>>' # <<carga, wr>>
            => Mostrar(op[p].c) = op[p].vista

\* Only a correction ends an edition with a change, and it is of the version
\* its author saw.
LEMMA PasoSobreLoVisto == GestionOK /\ [Next]_vars => SobreLoVisto
<1> SUFFICES ASSUME GestionOK, [Next]_vars, NEW p \in Peticiones, op[p].fase = "EDITA",
                    op'[p] = Libre, <<carga, wr>>' # <<carga, wr>>
             PROVE  Mostrar(op[p].c) = op[p].vista
  BY DEF SobreLoVisto
<1>1. op'[p] # op[p]
  BY LibreTipada
<1>2. MismaVersion(p) => Mostrar(op[p].c) = op[p].vista
  BY DEF GestionOK, VistaFiel
<1>3. ASSUME NEW q \in Peticiones, ActualizarCarga(q) \/ ActualizarDatosTransito(q) \/ CambiarBultos(q)
      PROVE  MismaVersion(p)
  <2>1. MismaVersion(q) /\ op' = [op EXCEPT ![q] = Libre]
    BY <1>3 DEF ActualizarCarga, Actualizar, ActualizarDatosTransito, ActualizarTransito,
                CambiarBultos, ReemplazarBultos
  <2> QED
    BY <1>1, <2>1 DEF GestionOK, TypeOK
<1>4. ASSUME NEW q \in Peticiones, Cerrar(q) \/ \E c \in Cargas : Abrir(q, c)
      PROVE  FALSE
  BY <1>4 DEF Cerrar, Abrir
<1>5. ASSUME NEW q \in Peticiones, CrearCarga(q)
      PROVE  FALSE
  <2>1. CASE Crear(q)
    <3>1. op[q].fase = "ALTA" /\ op' = [op EXCEPT ![q] = Libre]
      BY <2>1 DEF Crear
    <3> QED
      BY <1>1, <3>1 DEF GestionOK, TypeOK
  <2>2. CASE ~Crear(q)
    BY <1>5, <2>2 DEF CrearCarga, Alta
  <2> QED
    BY <2>1, <2>2
<1>6. ASSUME NEW c \in Cargas,
             \/ ResolverRevision(c) \/ OcultarCarga(c) \/ Recuperar(c)
             \/ Transicionar(c) \/ ArchivarPendientes(c)
      PROVE  FALSE
  BY <1>1, <1>6 DEF ResolverRevision, OcultarCarga, Ocultar, Recuperar, Transicionar,
                    ArchivarPendientes, Avanzar
<1>7. CASE OcultarCargasMasivamente
  BY <1>1, <1>7 DEF OcultarCargasMasivamente, Ocultar
<1>8. CASE UNCHANGED vars
  BY <1>1, <1>8 DEF vars
<1> QED
  BY <1>2, <1>3, <1>4, <1>5, <1>6, <1>7, <1>8 DEF Next

\* No correction is saved over what its author did not see: the row_version
\* covers the WR and the pieces too, which are rows of other tables.
THEOREM NadaSePisaSiempre == Spec => NadaSePisa
<1>1. GestionOK /\ [Next]_vars => [SobreLoVisto]_vars
  BY PasoSobreLoVisto
<1>2. Spec => [][SobreLoVisto]_vars
  BY <1>1, GestionSiempre, PTL DEF Spec
<1>3. [SobreLoVisto]_vars => [\A p \in Peticiones :
         op[p].fase = "EDITA" /\ op'[p] = Libre /\ <<carga, wr>>' # <<carga, wr>>
            => Mostrar(op[p].c) = op[p].vista]_vars
  BY DEF SobreLoVisto
<1> QED
  BY <1>2, <1>3, PTL DEF NadaSePisa

=============================================================================
