SPECIFICATION GallerySpec
CONSTANTS
    MaxGallery = 4
    MaxImages = 6
    MaxPosted = 2
    MaxClears = 2
PROPERTIES
    UpdateKeepsView
