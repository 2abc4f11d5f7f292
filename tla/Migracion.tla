----------------------------- MODULE Migracion -----------------------------
(***************************************************************************)
(* Moving the old system into this one: runs of the migrator, which read   *)
(* the old database table by table and write the new one in a single       *)
(* transaction, and runs of the uploader, which send the files to the      *)
(* storage one by one.  Both are cut and started again.                    *)
(* Sources: scripts/migrate_legacy.py, migrate_files.py,                   *)
(* verificar_migracion.py and app/modules/audit/legacy.py.                 *)
(*                                                                         *)
(* The old system is in use until it is frozen: rows appear between one    *)
(* table and the next.  A person starts the runs, one at a time.  The      *)
(* catalogues are seeded, and the numbers of WR do not collide.  Two items *)
(* of one dispatch with one shipment are one row here: the second is       *)
(* dropped by its ON CONFLICT and registered as if it had come.            *)
(***************************************************************************)
EXTENDS Naturals, Sequences, FiniteSets

CONSTANTS
    Filas,          \* rows of the old system
    Tabla,          \* the table of each row
    Padres,         \* the rows each row points at
    Nada,           \* no file, no document
    MaxCaidas       \* bound: runs that die

\* In the order of Migrador.ejecutar.  The invoices of the shipments and the
\* bills of lading of the dispatches are one stage; the attachments are the WR
\* that hangs from a shipment.
Etapas == <<"companies", "users", "shipments", "packages", "dispatches", "items",
            "documents", "invoices", "attachments">>

Tablas == {Etapas[n] : n \in 1 .. Len(Etapas)}

ASSUME MiParametros ==
    /\ Tabla \in [Filas -> Tablas]
    /\ Padres \in [Filas -> SUBSET Filas]
    /\ Nada \notin {"legacy", "s3"}
    /\ MaxCaidas \in Nat

De(t) == {f \in Filas : Tabla[f] = t}
CargasViejas == De("shipments")
Archivos == De("documents") \cup De("invoices") \cup De("attachments")

\* An account without e-mail is not migrated; one that is in use is an error.
Cuentas == {"BIEN", "SIN_CORREO", "BAJA_SIN_CORREO"}
Situaciones == {"PENDIENTE", "APROBADO", "COMPLETADO"}

VARIABLES
    vieja,          \* rows the old system has
    cuenta,         \* what its accounts are like
    ilegibles,      \* its dispatches of a status or a method nobody knows
    situacion,      \* the old status of its shipments
    congelada,      \* the old system is read-only
    corrida,        \* the run of the migrator, with what it has not committed
    nueva,          \* rows of the new database, by the old row: how many
    mapa,           \* legacy_id_map
    requisito,      \* the requirement for the document, opened with the shipment
    archivo,        \* documents: storage_provider and upload_status
    objeto,         \* the storage has the file, under some key
    subida,         \* the run of the uploader
    caidas
viejoVars == <<vieja, cuenta, ilegibles, situacion, congelada>>
nuevoVars == <<nueva, mapa, requisito>>
archivoVars == <<archivo, objeto, subida>>
miVars == <<viejoVars, corrida, nuevoVars, archivoVars, caidas>>

Parada == [etapa |-> 0, seco |-> FALSE, mapa |-> {}, filas |-> {}, abre |-> {}]
Quieta == [fase |-> "PARADA", faltan |-> {}, actual |-> Nada]

MiTypeOK ==
    /\ vieja \subseteq Filas
    /\ cuenta \in [De("users") -> Cuentas] /\ ilegibles \subseteq De("dispatches")
    /\ situacion \in [CargasViejas -> Situaciones]
    /\ congelada \in BOOLEAN
    /\ corrida \in [etapa : 0 .. Len(Etapas) + 1, seco : BOOLEAN, mapa : SUBSET Filas,
                    filas : SUBSET Filas, abre : SUBSET CargasViejas]
    /\ nueva \in [Filas -> Nat] /\ mapa \subseteq Filas
    /\ requisito \in [CargasViejas -> {"NO", "PENDING", "VERIFIED"}]
    /\ archivo \in [Archivos -> {Nada, "legacy", "s3"}]
    /\ objeto \subseteq Archivos
    /\ subida \in [fase : {"PARADA", "SUBE", "GUARDA"}, faltan : SUBSET Archivos,
                   actual : Archivos \cup {Nada}]
    /\ caidas \in 0 .. MaxCaidas

MiInit ==
    /\ vieja = {} /\ congelada = FALSE
    /\ cuenta = [u \in De("users") |-> "BIEN"] /\ ilegibles = {}
    /\ situacion = [c \in CargasViejas |-> "PENDIENTE"]
    /\ corrida = Parada
    /\ nueva = [f \in Filas |-> 0] /\ mapa = {}
    /\ requisito = [c \in CargasViejas |-> "NO"]
    /\ archivo = [f \in Archivos |-> Nada]
    /\ objeto = {}
    /\ subida = Quieta
    /\ caidas = 0

-----------------------------------------------------------------------------
(* The old system *)

Aparecer(f) ==
    /\ ~congelada
    /\ f \notin vieja /\ Padres[f] \subseteq vieja
    /\ vieja' = vieja \cup {f}
    /\ \/ UNCHANGED <<cuenta, ilegibles>>
       \/ /\ Tabla[f] = "users" /\ UNCHANGED ilegibles
          /\ \E c \in Cuentas : cuenta' = [cuenta EXCEPT ![f] = c]
       \/ /\ Tabla[f] = "dispatches" /\ UNCHANGED cuenta
          /\ ilegibles' = ilegibles \cup {f}
    /\ UNCHANGED <<situacion, congelada, corrida, nuevoVars, archivoVars, caidas>>

\* The corrections are made in the old database, frozen or not: of an e-mail, of
\* the status or the method of a dispatch.
Corregir(u) ==
    /\ u \in vieja /\ cuenta[u] # "BIEN"
    /\ cuenta' = [cuenta EXCEPT ![u] = "BIEN"]
    /\ UNCHANGED <<vieja, ilegibles, situacion, congelada, corrida, nuevoVars, archivoVars, caidas>>

CorregirDespacho(d) ==
    /\ d \in ilegibles
    /\ ilegibles' = ilegibles \ {d}
    /\ UNCHANGED <<vieja, cuenta, situacion, congelada, corrida, nuevoVars, archivoVars, caidas>>

Avanzar(c) ==
    /\ ~congelada /\ c \in vieja
    /\ \/ situacion[c] = "PENDIENTE" /\ situacion' = [situacion EXCEPT ![c] = "APROBADO"]
       \/ situacion[c] = "APROBADO" /\ situacion' = [situacion EXCEPT ![c] = "COMPLETADO"]
    /\ UNCHANGED <<vieja, cuenta, ilegibles, congelada, corrida, nuevoVars, archivoVars, caidas>>

ConPiezas(c, filas) == \E b \in De("packages") \cap filas : c \in Padres[b]

\* It is frozen when no shipment is half entered.
Congelar ==
    /\ ~congelada
    /\ \A c \in CargasViejas \cap vieja : ConPiezas(c, vieja)
    /\ congelada' = TRUE
    /\ UNCHANGED <<vieja, cuenta, ilegibles, situacion, corrida, nuevoVars, archivoVars, caidas>>

-----------------------------------------------------------------------------
(* The migrator *)

\* comprobar: nothing that has to be corrected in the old system.
Comprobada ==
    /\ \A u \in De("users") \cap vieja : cuenta[u] # "SIN_CORREO"
    /\ \A c \in CargasViejas \cap vieja : ConPiezas(c, vieja)

\* The correspondences are loaded; then the data are checked, and the run ends
\* there if they are not right.
Correr(seco) ==
    /\ corrida = Parada /\ subida.fase = "PARADA"
    /\ Comprobada
    /\ corrida' = [Parada EXCEPT !.etapa = 1, !.seco = seco, !.mapa = mapa]
    /\ UNCHANGED <<viejoVars, nuevoVars, archivoVars, caidas>>

\* What a row needs from those that were migrated before it.  A shipment can
\* do without its client, and then is attributed to the account of the system.
Obligatorios(f) ==
    IF Tabla[f] \in {"users", "shipments"} THEN Padres[f] \cap De("companies") ELSE Padres[f]

\* Mutant: a row is inserted although what it points at was left behind.
SinSusPadres(f, hechas) ==
    (Tabla[f] = "users" => cuenta[f] = "BIEN") /\ f \notin ilegibles

Migrable(f, hechas) ==
    /\ Tabla[f] = "users" => cuenta[f] = "BIEN"
    /\ f \notin ilegibles
    /\ Tabla[f] # "users" => Obligatorios(f) \subseteq hechas

\* Mutant: the correspondences of earlier runs are not consulted.
SinConsultarMapa(t) == {f \in De(t) \cap vieja : Migrable(f, corrida.mapa)}

\* The rows of the table that this run inserts: those that are in no earlier
\* correspondence and lack nothing.  The others are reported and left.
PorMigrar(t) == {f \in De(t) \cap vieja : f \notin corrida.mapa /\ Migrable(f, corrida.mapa)}

\* _traducir_estado: an approved shipment without a dispatch is kept in the
\* warehouse, like one whose status says nothing.
TraducirEstado(c) ==
    CASE situacion[c] = "COMPLETADO" -> "DISPATCHED"
      [] situacion[c] = "APROBADO" /\ (\E i \in De("items") \cap vieja : c \in Padres[i])
           -> "DISPATCH_REQUESTED"
      [] OTHER -> "STORED"

\* _requisitos: what was dispatched is asked for no more documents.
AbreRequisito(c) == TraducirEstado(c) # "DISPATCHED"

\* One stage: each row is inserted with its correspondence.
Etapa(t, abre) ==
    /\ corrida.etapa \in 1 .. Len(Etapas) /\ Etapas[corrida.etapa] = t
    /\ corrida' = [corrida EXCEPT !.etapa = @ + 1, !.mapa = @ \cup PorMigrar(t),
                                  !.filas = @ \cup PorMigrar(t), !.abre = @ \cup abre]
    /\ UNCHANGED <<viejoVars, nuevoVars, archivoVars, caidas>>

MigrarEmpresas == Etapa("companies", {})
MigrarUsuarios == Etapa("users", {})
MigrarCargas == Etapa("shipments", {c \in PorMigrar("shipments") : AbreRequisito(c)})
MigrarPaquetes == Etapa("packages", {})
MigrarDespachos == Etapa("dispatches", {})
MigrarCargasDeDespacho == Etapa("items", {})
MigrarDocumentos == Etapa("documents", {})
MigrarDocumentosDeDespacho == Etapa("invoices", {})
MigrarAdjuntos == Etapa("attachments", {})

Migrar ==
    \/ MigrarEmpresas \/ MigrarUsuarios \/ MigrarCargas \/ MigrarPaquetes
    \/ MigrarDespachos \/ MigrarCargasDeDespacho
    \/ MigrarDocumentos \/ MigrarDocumentosDeDespacho \/ MigrarAdjuntos

EnLaNueva == {f \in Filas : nueva[f] > 0}

\* The constraint trigger: at the commit each new shipment has its pieces.
ConSusPiezas ==
    \A c \in corrida.filas \cap CargasViejas : ConPiezas(c, corrida.filas \cup EnLaNueva)

\* Mutant: an account that was reported counts as migrated.
GuardarReportadas == mapa' = mapa \cup corrida.filas \cup (De("users") \cap vieja)

GuardarMapa == mapa' = mapa \cup corrida.filas

Confirmar ==
    /\ corrida.etapa = Len(Etapas) + 1
    /\ ~corrida.seco /\ ConSusPiezas
    /\ nueva' = [f \in Filas |-> IF f \in corrida.filas THEN nueva[f] + 1 ELSE nueva[f]]
    /\ GuardarMapa
    /\ requisito' = [c \in CargasViejas |-> IF c \in corrida.abre THEN "PENDING" ELSE requisito[c]]
    /\ archivo' = [f \in Archivos |-> IF f \in corrida.filas THEN "legacy" ELSE archivo[f]]
    /\ corrida' = Parada
    /\ UNCHANGED <<viejoVars, objeto, subida, caidas>>

\* The simulation is undone, and so is a run whose commit is refused.
Deshacer ==
    /\ corrida.etapa = Len(Etapas) + 1
    /\ corrida.seco \/ ~ConSusPiezas
    /\ corrida' = Parada
    /\ UNCHANGED <<viejoVars, nuevoVars, archivoVars, caidas>>

CaeMigrador ==
    /\ corrida # Parada
    /\ caidas < MaxCaidas /\ caidas' = caidas + 1
    /\ corrida' = Parada
    /\ UNCHANGED <<viejoVars, nuevoVars, archivoVars>>

-----------------------------------------------------------------------------
(* The uploader *)

Pendientes == {f \in Archivos : archivo[f] = "legacy"}

\* _pendientes: the list is taken once.
Listar ==
    /\ subida.fase = "PARADA" /\ corrida = Parada /\ Pendientes # {}
    /\ subida' = [Quieta EXCEPT !.fase = "SUBE", !.faltan = Pendientes]
    /\ UNCHANGED <<viejoVars, corrida, nuevoVars, archivo, objeto, caidas>>

\* Mutant: the row is written before the file arrives.
SinEsperar(f) ==
    /\ subida.fase = "SUBE" /\ f \in subida.faltan
    /\ subida' = [fase |-> "GUARDA", faltan |-> subida.faltan \ {f}, actual |-> f]
    /\ UNCHANGED <<viejoVars, corrida, nuevoVars, archivo, objeto, caidas>>

Subir(f) ==
    /\ subida.fase = "SUBE" /\ f \in subida.faltan
    /\ objeto' = objeto \cup {f}
    /\ subida' = [fase |-> "GUARDA", faltan |-> subida.faltan \ {f}, actual |-> f]
    /\ UNCHANGED <<viejoVars, corrida, nuevoVars, archivo, caidas>>

\* One transaction for each file: the document is READY in the storage and
\* the requirement an invoice came to meet, met.  Then the next of the list.
Guardar(f) ==
    /\ subida.fase = "GUARDA" /\ subida.actual = f
    /\ archivo' = [archivo EXCEPT ![f] = "s3"]
    /\ requisito' = [c \in CargasViejas |->
         IF Tabla[f] = "invoices" /\ c \in Padres[f] /\ requisito[c] = "PENDING"
         THEN "VERIFIED" ELSE requisito[c]]
    /\ subida' = IF subida.faltan = {} THEN Quieta ELSE [subida EXCEPT !.fase = "SUBE", !.actual = Nada]
    /\ UNCHANGED <<viejoVars, corrida, nueva, mapa, objeto, caidas>>

CaeSubida ==
    /\ subida.fase # "PARADA"
    /\ caidas < MaxCaidas /\ caidas' = caidas + 1
    /\ subida' = Quieta
    /\ UNCHANGED <<viejoVars, corrida, nuevoVars, archivo, objeto>>

-----------------------------------------------------------------------------

Viejo ==
    \/ \E f \in Filas : Aparecer(f)
    \/ \E u \in De("users") : Corregir(u)
    \/ \E d \in De("dispatches") : CorregirDespacho(d)
    \/ \E c \in CargasViejas : Avanzar(c)
    \/ Congelar

Migrador ==
    \/ \E seco \in BOOLEAN : Correr(seco)
    \/ Migrar \/ Confirmar \/ Deshacer \/ CaeMigrador

Subidor ==
    \/ Listar \/ CaeSubida
    \/ \E f \in Archivos : Subir(f) \/ Guardar(f)

MiNext == Viejo \/ Migrador \/ Subidor

MiSpec == MiInit /\ [][MiNext]_miVars

\* The runs end, the person corrects what they report and repeats them until
\* there is nothing left.
Equidad ==
    /\ WF_miVars(Migrar) /\ WF_miVars(Confirmar) /\ WF_miVars(Deshacer)
    /\ SF_miVars(Correr(FALSE)) /\ SF_miVars(Listar)
    /\ WF_miVars(\E f \in Archivos : Subir(f) \/ Guardar(f))
    /\ \A u \in De("users") : WF_miVars(cuenta[u] = "SIN_CORREO" /\ Corregir(u))

MiFairSpec == MiSpec /\ Equidad

-----------------------------------------------------------------------------
(* Properties *)

\* However often the migrator is run, cut or simulated, no row of the old
\* system is in the new one twice.
SinDuplicados == \A f \in Filas : nueva[f] <= 1

\* A requirement that the migration gives for met has its file in the storage.
RequisitoConArchivo ==
    \A c \in CargasViejas : requisito[c] = "VERIFIED" =>
        \E f \in Archivos : c \in Padres[f] /\ archivo[f] = "s3" /\ f \in objeto

\* What a row has to come with: all but the accounts come with their parents.
Necesita == [f \in Filas |-> IF Tabla[f] = "users" THEN {} ELSE Obligatorios(f)]
Piezas == [c \in CargasViejas |-> {b \in De("packages") : c \in Padres[b]}]
Respalda == [f \in Archivos |-> Padres[f] \cap CargasViejas]

T == INSTANCE Traslado WITH
       Cargas <- CargasViejas,
       veces <- nueva,
       guardados <- {f \in Archivos : archivo[f] = "s3"},
       cumplidos <- {c \in CargasViejas : requisito[c] = "VERIFIED"}

\* Runs that are cut, simulated and repeated while the old system changes, and
\* uploads between them, do no more than bring whole sets of rows once and then
\* their files: nothing comes without its parents, no second run overwrites a
\* document that was uploaded or opens a requirement that was met.
ImplementaTraslado == T!Spec

\* comparar: the counts of both systems agree, but for the accounts without
\* e-mail and the dispatches that cannot be read, which every run reports; nothing
\* is missing but them and what cannot be without them.
Cuadra ==
    \A f \in vieja :
        /\ \/ nueva[f] = 1
           \/ Tabla[f] = "users" /\ cuenta[f] # "BIEN"
           \/ f \in ilegibles
           \/ \E p \in Obligatorios(f) : nueva[p] = 0
        /\ f \in Archivos /\ nueva[f] = 1 => archivo[f] = "s3"

\* Once the old system is frozen, runs that are cut and repeated end up
\* bringing everything, and the files behind it.
TodoLlega == congelada ~> []Cuadra

=============================================================================
