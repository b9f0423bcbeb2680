---------------------------- MODULE PetShopTables ----------------------------
(***************************************************************************)
(* The tables of the pet shop, what their rows refer to, the two           *)
(* representations of the animal-trait relation, invoice numbers and the   *)
(* seed (packages/domain).                                                 *)
(*                                                                         *)
(* A row holds the rows it refers to where the code holds their hashes.    *)
(* Persons and breeders are left out: they are referred to and listed like *)
(* species and customers and nothing ever writes them after the seed.  So  *)
(* are columns that are copied from one version to the next.               *)
(***************************************************************************)
EXTENDS EntityVersions, SequencesExt

CONSTANTS
    TraitIds,   \* the traits of the seed
    SeedName,   \* the name of the seed's animal
    SeedImage   \* what the renderer makes of the seed's species

ASSUME TraitAssumption == IsFiniteSet(TraitIds)

table(row) == row.id[1]

SpeciesRow(image) == [id |-> <<"species", "s">>, image |-> image]
TraitRow(traitId) == [id |-> <<"traits", traitId>>]
CustomerRow == [id |-> <<"customers", "c">>]

(* traitsRefs is written in one canonical order: a set.                    *)
AnimalRow(name, species, traits) ==
    [id |-> <<"animals", "a">>, name |-> name, species |-> species, traits |-> traits]

(* animalTraitId: one entity for every version of the pairing.             *)
AnimalTraitRow(animal, trait) ==
    [id |-> <<"animalTraits", animal.id[2], trait.id[2]>>, animal |-> animal, trait |-> trait]

InvoiceRow(sequence, customer) == [id |-> <<"invoices", sequence>>, customer |-> customer]

InvoiceItemRow(invoice, position, animal) ==
    [id |-> <<"invoiceItems", invoice.id[2], position>>, invoice |-> invoice, animal |-> animal]

(* The rows of an invoice with one line.                                   *)
invoiceRows(sequence, customer, animal) ==
    LET invoice == InvoiceRow(sequence, customer)
    IN  <<invoice, InvoiceItemRow(invoice, 1, animal)>>

(* One more than the highest number of the year, which is one year here.   *)
nextInvoiceSequence(invoices) == Max({0} \cup {invoice.id[2] : invoice \in invoices}) + 1

(* What a row's reference columns name.                                    *)
columnReferencesOf(row) ==
    CASE table(row) = "animals" -> {row.species} \cup row.traits
      [] table(row) = "animalTraits" -> {row.animal, row.trait}
      [] table(row) = "invoices" -> {row.customer}
      [] table(row) = "invoiceItems" -> {row.invoice, row.animal}
      [] OTHER -> {}

blobReferencesOf(row) == IF table(row) = "species" THEN {row.image} ELSE {}

-----------------------------------------------------------------------------
(* The animal-trait relation: which traits an animal version carries, read *)
(* off the animal row, or off the junction rows.  A trait whose row is not *)
(* in the store is left out.                                               *)

MultiReferenceTraitRelation(rows, animal) == animal.traits \cap rows

JunctionTraitRelation(rows, animal) ==
    {pairing.trait : pairing \in
        {row \in rows : table(row) = "animalTraits" /\ row.animal = animal}} \cap rows

traitsOf(rows, mode, animal) ==
    IF mode = "junction" THEN JunctionTraitRelation(rows, animal)
    ELSE MultiReferenceTraitRelation(rows, animal)

-----------------------------------------------------------------------------
(* The seed: entity by entity, each a list of rows that become one change  *)
(* set, every row after the rows it refers to.                             *)

SeedAnimal ==
    AnimalRow(SeedName, SpeciesRow(SeedImage), {TraitRow(t) : t \in TraitIds})

seedPart ==
    LET traits == SetToSeq(TraitIds)
    IN  <<<<SpeciesRow(SeedImage)>>>>
        \o [i \in DOMAIN traits |-> <<TraitRow(traits[i])>>]
        \o <<<<CustomerRow>>,
             <<SeedAnimal>> \o
                 [i \in DOMAIN traits |-> AnimalTraitRow(SeedAnimal, TraitRow(traits[i]))]>>
=============================================================================
